---------------------------- MODULE Spec2Model ----------------------------
(***************************************************************************)
(* A model of the reasoning core of the retrieval-augmented chat backend:  *)
(*   - backend/agents/tool_adapters.py  parse_action_line, run_tool_safely *)
(*   - backend/agents/agent_core.py     Agent.run (the ReAct loop)         *)
(*   - backend/pipeline.py              retrieve_context                   *)
(* Text is modelled by TLA+ strings; At(s, i) is the i-th character.       *)
(***************************************************************************)
EXTENDS Integers, Sequences, FiniteSets, TLC

VARIABLES
    p_pc,        \* parser harness: "ready" before the call, "done" after it
    p_in,        \* parser harness: the pieces the input line is made of
    p_out,       \* parser harness: what parse_action_line gave for the line
    cfg,         \* Agent.config: the AgentConfig of the run, and how it was made
    a_pc,        \* where Agent.run is: "new", "llm" (awaiting llm.ainvoke),
                 \* "tool" (awaiting run_tool_safely), "returned", "raised"
    step,        \* the loop variable of "for step in range(1, max_steps + 1)"
    trace,       \* the list trace
    scratchpad_lines,
    messages,    \* the list messages given to llm.ainvoke
    model_text,  \* the stripped content of the last model response
    attempt,     \* calls of run_tool_safely made by the retry loop of the last dispatch
    obs,         \* the local obs: the Observation of the last attempt
    tool_ev,     \* what the last call of run_tool_safely met (for the properties)
    result,      \* the AgentResult returned
    n_results,   \* how many AgentResult values the run has returned
    live,        \* the tool invocations whose body is still executing
    n_timeouts,  \* timeouts that fired in this run
    late_effects, \* tool bodies that ran to their end after their call timed out
    r_pc,        \* retrieval: "ready" before the call of retrieve_context, "done" after
    r_in,        \* retrieval: the query, the two indexes and what the services answer
    r_out,       \* retrieval: what retrieve_context returned, or that it raised
    cache_file,  \* embedding cache: the keys of the dict in CACHE_PATH
    cache_saved, \* embedding cache: the keys some save_cache has written so far
    e_proc,      \* embedding cache: each caller of get_or_create_embedding
    m_index,     \* memory: the texts of the index saved at FAISS_PATH
    m_json,      \* memory: the list in MEMORIES_PATH
    m_proc,      \* memory: each caller of add_memory, edit_memory, delete_memory
    h_db,        \* HTTP API: the rows of the tables sessions and chat_messages
    h_resp,      \* HTTP API: the last request, its response and what it ran
    registry,    \* tools: _TOOL_REGISTRY
    decorated    \* tools: the classes register_tool has been applied to

parseVars == <<p_pc, p_in, p_out>>

agentVars ==
    <<cfg, a_pc, step, trace, scratchpad_lines, messages, model_text, attempt, obs,
      tool_ev, result, n_results, live, n_timeouts, late_effects>>

retrVars == <<r_pc, r_in, r_out>>

cacheVars == <<cache_file, cache_saved, e_proc>>

memVars == <<m_index, m_json, m_proc>>

httpVars == <<h_db, h_resp>>

toolVars == <<registry, decorated>>

sysVars == <<cacheVars, memVars, httpVars, toolVars>>

vars == <<parseVars, agentVars, retrVars, sysVars>>

-----------------------------------------------------------------------------
(* Strings: the str methods the code uses.                                 *)

At(s, i) == SubSeq(s, i, i)

SetMin(S) == CHOOSE x \in S : \A y \in S : x <= y

SetMax(S) == CHOOSE x \in S : \A y \in S : x >= y

UpperChars == "ABCDEFGHIJKLMNOPQRSTUVWXYZ"

LowerChars == "abcdefghijklmnopqrstuvwxyz"

\* str.isspace for one character (the whitespace str.strip removes)
IsSpace(c) == c \in {" ", "\t", "\n", "\r"}

LowerChar(c) ==
    LET hit == {i \in 1..Len(UpperChars) : At(UpperChars, i) = c}
    IN  IF hit = {} THEN c ELSE At(LowerChars, SetMin(hit))

RECURSIVE Lower(_)
\* str.lower
Lower(s) == IF s = "" THEN "" ELSE LowerChar(Head(s)) \o Lower(Tail(s))

\* str.strip
Strip(s) ==
    LET keep == {i \in 1..Len(s) : ~IsSpace(At(s, i))}
    IN  IF keep = {} THEN "" ELSE SubSeq(s, SetMin(keep), SetMax(keep))

\* str.startswith
StartsWith(s, p) == Len(s) >= Len(p) /\ SubSeq(s, 1, Len(p)) = p

\* positions of the one-character separator c in s
Positions(s, c) == {i \in 1..Len(s) : At(s, i) = c}

-----------------------------------------------------------------------------
(* json.loads on the JSON subset the inputs use: objects, arrays, strings  *)
(* without escapes, unsigned integers, null/true/false, blanks between     *)
(* tokens.  A decoded value is kept as its kind, its canonical text (the   *)
(* blanks between tokens dropped) and, for an object, its key set.         *)

Quote == "\""

DigitChars == {"0", "1", "2", "3", "4", "5", "6", "7", "8", "9"}

JFail == [ok |-> FALSE, pos |-> 0, kind |-> "invalid", canon |-> "", keys |-> {}]

JOk(pos, kind, canon, keys) ==
    [ok |-> TRUE, pos |-> pos, kind |-> kind, canon |-> canon, keys |-> keys]

RECURSIVE SkipWs(_, _)
SkipWs(s, i) == IF i <= Len(s) /\ IsSpace(At(s, i)) THEN SkipWs(s, i + 1) ELSE i

ParseString(s, i) ==
    LET closes == {j \in (i + 1)..Len(s) : At(s, j) = Quote}
    IN  IF closes = {} THEN JFail
        ELSE JOk(SetMin(closes) + 1, "string", SubSeq(s, i, SetMin(closes)), {})

ParseNumber(s, i) ==
    LET stops == {j \in i..(Len(s) + 1) : j = Len(s) + 1 \/ At(s, j) \notin DigitChars}
        e == SetMin(stops)
    IN  IF At(s, i) = "0" /\ e > i + 1 THEN JFail
        ELSE JOk(e, "number", SubSeq(s, i, e - 1), {})

ParseLiteral(s, i, word) ==
    IF SubSeq(s, i, i + Len(word) - 1) = word
    THEN JOk(i + Len(word), "literal", word, {})
    ELSE JFail

RECURSIVE ParseValue(_, _)
RECURSIVE ParseElems(_, _, _)
RECURSIVE ParseMembers(_, _, _, _)

ParseValue(s, i) ==
    IF i > Len(s) THEN JFail
    ELSE LET c == At(s, i)
             j == SkipWs(s, i + 1)
         IN  CASE c = "{" -> IF j <= Len(s) /\ At(s, j) = "}"
                             THEN JOk(j + 1, "object", "{}", {})
                             ELSE ParseMembers(s, j, "{", {})
               [] c = "[" -> IF j <= Len(s) /\ At(s, j) = "]"
                             THEN JOk(j + 1, "array", "[]", {})
                             ELSE ParseElems(s, j, "[")
               [] c = Quote -> ParseString(s, i)
               [] c \in DigitChars -> ParseNumber(s, i)
               [] c = "n" -> ParseLiteral(s, i, "null")
               [] c = "t" -> ParseLiteral(s, i, "true")
               [] c = "f" -> ParseLiteral(s, i, "false")
               [] OTHER -> JFail

ParseElems(s, i, acc) ==
    LET v == ParseValue(s, i)
        e == SkipWs(s, v.pos)
    IN  IF ~v.ok \/ e > Len(s) THEN JFail
        ELSE IF At(s, e) = "]" THEN JOk(e + 1, "array", acc \o v.canon \o "]", {})
        ELSE IF At(s, e) = "," THEN ParseElems(s, SkipWs(s, e + 1), acc \o v.canon \o ",")
        ELSE JFail

ParseMembers(s, i, acc, keys) ==
    IF i > Len(s) \/ At(s, i) # Quote THEN JFail
    ELSE LET k == ParseString(s, i)
             c == SkipWs(s, k.pos)
         IN  IF ~k.ok \/ c > Len(s) \/ At(s, c) # ":" THEN JFail
             ELSE LET v == ParseValue(s, SkipWs(s, c + 1))
                      e == SkipWs(s, v.pos)
                      acc2 == acc \o k.canon \o ":" \o v.canon
                      keys2 == keys \cup {SubSeq(k.canon, 2, Len(k.canon) - 1)}
                  IN  IF ~v.ok \/ e > Len(s) THEN JFail
                      ELSE IF At(s, e) = "}" THEN JOk(e + 1, "object", acc2 \o "}", keys2)
                      ELSE IF At(s, e) = ","
                           THEN ParseMembers(s, SkipWs(s, e + 1), acc2 \o ",", keys2)
                      ELSE JFail

\* json.loads(s): the whole text must be one value; anything else raises
json_loads(s) ==
    LET r == ParseValue(s, SkipWs(s, 1))
    IN  IF r.ok /\ SkipWs(s, r.pos) = Len(s) + 1 THEN r ELSE JFail


-----------------------------------------------------------------------------
(* parse_action_line (tool_adapters.py).  A result is st = "ok" with the   *)
(* name and the decoded arguments, st = "none" for the value None, and     *)
(* st = "raise" for an exception that leaves the function.                 *)

NoArgs == [kind |-> "none", canon |-> "", keys |-> {}]

ParseNone == [st |-> "none", name |-> "", args |-> NoArgs]

ParseRaise == [st |-> "raise", name |-> "", args |-> NoArgs]

ParseOk(name, j) ==
    [st |-> "ok", name |-> name,
     args |-> [kind |-> j.kind, canon |-> j.canon, keys |-> j.keys]]

\* any JSON container passes for a dict
is_dict_or_list(j) == j.kind \in {"object", "array"}

\* isinstance(args, dict)
is_dict(j) == j.kind = "object"

\* content.split("(", 1): the piece before the first "(" and the piece after it
split_open(content) ==
    LET o == SetMin(Positions(content, "("))
    IN  <<SubSeq(content, 1, o - 1), SubSeq(content, o + 1, Len(content))>>

\* json_part.rsplit(")", 1)[0]: all of it when it has no ")", else what is
\* before the last ")"
rsplit_close(json_part) ==
    LET closes == Positions(json_part, ")")
    IN  IF closes = {} THEN json_part ELSE SubSeq(json_part, 1, SetMax(closes) - 1)

\* the body of the try block; the line is stripped and has the prefix
parse_try_block(line) ==
    LET content == Strip(SubSeq(line, Len("Action:") + 1, Len(line)))
    IN  IF Positions(content, "(") = {} THEN ParseRaise   \* unpacking one piece
        ELSE LET name == Strip(split_open(content)[1])
                 json_str == rsplit_close(split_open(content)[2])
                 args == json_loads(json_str)
             IN  IF ~args.ok THEN ParseRaise               \* json.JSONDecodeError
                 ELSE IF ~is_dict(args) THEN ParseRaise    \* ValueError
                 ELSE ParseOk(name, args)

\* except Exception: return None
except_exception(r) == IF r.st = "raise" THEN ParseNone ELSE r

parse_action_line(line0) ==
    LET line == Strip(line0)
    IN  IF ~StartsWith(Lower(line), "action:") THEN ParseNone
        ELSE except_exception(parse_try_block(line))

-----------------------------------------------------------------------------
(* The parser harness: one call of parse_action_line on a line put         *)
(* together from a leading blank, a prefix, a gap, a tool name, an opening *)
(* parenthesis, an argument block and a closing part.                      *)

Leads == {"", " "}

Prefixes == {"Action:", "action:", "ACTION:", "Act:"}

Gaps == {"", " "}

Names == {"", "f", "calculator"}

Opens == {"(", "", " ("}

ObjectBlocks ==
    {"{}", "{\"a\": 1}", "{\"expression\": \"2+2\"}", "{\"a\": \")\"}",
     "{\"a\": \"(\", \"b\": [1, null]}", " {\"timeout\": 5} "}

NonObjectBlocks == {"[1]", "12", "\"s\"", "null"}

BadBlocks == {"not json", "{\"a\": 1", "{\"a\": 1} x", ""}

Blocks == ObjectBlocks \cup NonObjectBlocks \cup BadBlocks

Closes == {")", "", ") x", "))"}

ParseInputs ==
    [lead : Leads, prefix : Prefixes, gap : Gaps, name : Names, open : Opens,
     block : Blocks, close : Closes]

LineOf(in) == in.lead \o in.prefix \o in.gap \o in.name \o in.open \o in.block \o in.close

ParseInit ==
    /\ p_pc = "ready"
    /\ p_in \in ParseInputs
    /\ p_out = ParseNone

ParseCall ==
    /\ p_pc = "ready"
    /\ p_out' = parse_action_line(LineOf(p_in))
    /\ p_pc' = "done"
    /\ UNCHANGED p_in


-----------------------------------------------------------------------------
(* Policy defaults and prefixes (agents/policy.py), AgentConfig            *)
(* (agents/types.py).  An Optional[int] field is set = FALSE for None.     *)

DEFAULT_MAX_STEPS == 15

DEFAULT_MAX_RETRIES == 2

DEFAULT_TOOL_TIMEOUT_SEC == 30

THOUGHT_PREFIX == "Thought:"

ACTION_PREFIX == "Action:"

OBSERVATION_PREFIX == "Observation:"

FINAL_ANSWER_PREFIX == "FinalAnswer:"

NoneInt == [set |-> FALSE, v |-> 0]

SomeInt(n) == [set |-> TRUE, v |-> n]

\* Python's "x or default" on an Optional[int]: None and 0 are both falsy
py_or(opt, default) == IF opt.set /\ opt.v # 0 THEN opt.v ELSE default

max_steps == py_or(cfg.max_steps, DEFAULT_MAX_STEPS)

max_retries == py_or(cfg.max_retries, DEFAULT_MAX_RETRIES)

timeout == py_or(cfg.tool_timeout_sec, DEFAULT_TOOL_TIMEOUT_SEC)

NoneList == [set |-> FALSE, v |-> <<>>]

SomeList(names) == [set |-> TRUE, v |-> names]

\* Python's "x or default" on an Optional[List[str]]: None and [] are falsy
py_or_list(opt, default) == IF opt.set /\ opt.v # <<>> THEN opt.v ELSE default

-----------------------------------------------------------------------------
(* The tool registry as run_tool_safely sees it: a registered name has a   *)
(* tool whose entry point is a plain function ("sync", run in the default  *)
(* executor), a coroutine function ("async") or missing ("none").          *)

ToolRegistry == [calculator |-> "sync", fetch |-> "async", broken |-> "none"]

\* list(_TOOL_REGISTRY.keys())
RegistryKeys == <<"calculator", "fetch", "broken">>

\* what a tool body may return: a str, or a list whose str() differs from it
ToolResults == {[py |-> "str", v |-> <<"Result: 4">>], [py |-> "list", v |-> <<"cat">>]}

\* the Exception subclasses the two except clauses tell apart; the message
ToolErrors == {[cls |-> "TimeoutError", msg |-> "read timed out"],
               [cls |-> "Exception", msg |-> "boom"]}

RECURSIVE ListItems(_)
ListItems(v) ==
    IF v = <<>> THEN ""
    ELSE "'" \o Head(v) \o "'" \o (IF Len(v) > 1 THEN ", " ELSE "") \o ListItems(Tail(v))

\* str(result)
py_str(r) == IF r.py = "str" THEN r.v[1] ELSE "[" \o ListItems(r.v) \o "]"

\* str(int) for the numbers the texts hold
IntStr(n) == ToString(n)

NoObs == [some |-> FALSE, text |-> "", success |-> FALSE, error |-> "", details |-> ""]

Observation(text, success, error, details) ==
    [some |-> TRUE, text |-> text, success |-> success, error |-> error,
     details |-> details]

obs_unknown_tool(name) ==
    Observation("Tool '" \o name \o "' not found in registry.", FALSE, "unknown_tool", "")

obs_success(r) == Observation(py_str(r), TRUE, "", "")

obs_timeout(name, t) ==
    Observation("Tool '" \o name \o "' timed out after " \o IntStr(t) \o "s.",
                FALSE, "timeout", "")

obs_exception(name, msg) ==
    Observation("Error while running tool '" \o name \o "': " \o msg,
                FALSE, "exception", msg)

\* _run_with_timeout(func, **args, timeout=timeout): a key of args that is a
\* parameter of _run_with_timeout makes the call itself a TypeError
binding_error(args) ==
    IF "timeout" \in args.keys
    THEN "_run_with_timeout() got multiple values for keyword argument 'timeout'"
    ELSE IF "func" \in args.keys
    THEN "_run_with_timeout() got multiple values for argument 'func'"
    ELSE ""

NoEv == [kind |-> "none", cls |-> "", msg |-> "", res |-> <<>>]

Ev(kind, cls, msg, res) == [kind |-> kind, cls |-> cls, msg |-> msg, res |-> res]

\* run_tool_safely up to its await: the Observation it returns at once, or
\* some = FALSE when the tool body is started and awaited
run_tool_start(name, args) ==
    IF name \notin DOMAIN ToolRegistry
    THEN [ev |-> Ev("unknown", "", "", <<>>), obs |-> obs_unknown_tool(name)]
    ELSE IF ToolRegistry[name] = "none"
    THEN [ev |-> Ev("nofunc", "AttributeError",
                    "Tool " \o name \o " has no .run or .arun method", <<>>),
          obs |-> obs_exception(name, "Tool " \o name \o " has no .run or .arun method")]
    ELSE IF binding_error(args) # ""
    THEN [ev |-> Ev("binding", "TypeError", binding_error(args), <<>>),
          obs |-> obs_exception(name, binding_error(args))]
    ELSE [ev |-> NoEv, obs |-> NoObs]

\* without the except asyncio.TimeoutError clause
run_tool_finish_one_except(name, t, ev) ==
    IF ev.kind = "return" THEN obs_success(ev.res[1])
    ELSE obs_exception(name, ev.msg)

\* run_tool_safely after its await: the try block's three ways out.  ev is
\* the tool returning, the tool raising, or wait_for timing out.
run_tool_finish(name, t, ev) ==
    CASE ev.kind = "return" -> obs_success(ev.res[1])
      [] ev.kind = "timeout" -> obs_timeout(name, t)
      [] ev.kind = "raise" /\ ev.cls = "TimeoutError" -> obs_timeout(name, t)
      [] OTHER -> obs_exception(name, ev.msg)


-----------------------------------------------------------------------------
(* Agent.run (agents/agent_core.py): what one step reads in the model text *)

RECURSIVE SplitLines(_)
\* str.splitlines
SplitLines(s) ==
    IF s = "" THEN <<>>
    ELSE LET nl == Positions(s, "\n")
         IN  IF nl = {} THEN <<s>>
             ELSE <<SubSeq(s, 1, SetMin(nl) - 1)>>
                      \o SplitLines(SubSeq(s, SetMin(nl) + 1, Len(s)))

RECURSIVE Join(_, _)
\* sep.join(seq)
Join(seq, sep) ==
    IF seq = <<>> THEN ""
    ELSE IF Len(seq) = 1 THEN seq[1]
    ELSE seq[1] \o sep \o Join(Tail(seq), sep)

NonEmptyLine(ln) == Strip(ln) # ""

\* lines = [ln.strip() for ln in model_text.splitlines() if ln.strip()]
Lines(text) ==
    LET kept == SelectSeq(SplitLines(text), NonEmptyLine)
    IN  [i \in 1..Len(kept) |-> Strip(kept[i])]

\* next((ln for ln in lines if ln.startswith(prefix)), None); "" is None
first_with_prefix(lines, prefix) ==
    LET hit == {i \in 1..Len(lines) : StartsWith(lines[i], prefix)}
    IN  IF hit = {} THEN "" ELSE lines[SetMin(hit)]

thought_line(text) == first_with_prefix(Lines(text), THOUGHT_PREFIX)

action_line(text) == first_with_prefix(Lines(text), ACTION_PREFIX)

final_line(text) == first_with_prefix(Lines(text), FINAL_ANSWER_PREFIX)

\* final_line[len(FINAL_ANSWER_PREFIX):].strip()
final_text_of(text) ==
    Strip(SubSeq(final_line(text), Len(FINAL_ANSWER_PREFIX) + 1, Len(final_line(text))))

\* the action line is looked at before the final line
step_decision_action_first(final, action, parsed_st) ==
    IF action # "" /\ parsed_st = "ok" THEN "dispatch"
    ELSE IF final # "" THEN "final"
    ELSE IF action = "" THEN "no_action"
    ELSE "parse_error"

\* a step without an action line goes on like one whose action line does
\* not parse
step_decision_no_stop(final, action, parsed_st) ==
    IF final # "" THEN "final"
    ELSE IF parsed_st = "raise" THEN "raise"
    ELSE IF action = "" \/ parsed_st = "none" THEN "parse_error"
    ELSE "dispatch"

\* the order of the tests of one step (lines 77, 86, 94), on the final line,
\* the action line and what parse_action_line gave for it
step_decision(final, action, parsed_st) ==
    IF final # "" THEN "final"
    ELSE IF action = "" THEN "no_action"
    ELSE IF parsed_st = "raise" THEN "raise"
    ELSE IF parsed_st = "none" THEN "parse_error"
    ELSE "dispatch"

NoAction == [some |-> FALSE, name |-> "", args |-> NoArgs]

\* Action(**parsed)
action_of(parsed) == [some |-> TRUE, name |-> parsed.name, args |-> parsed.args]

RECURSIVE DictRepr(_, _)
\* str(dict) of the decoded arguments, from their canonical JSON text
DictRepr(s, inStr) ==
    IF s = "" THEN ""
    ELSE IF inStr THEN
        IF Head(s) = Quote THEN "'" \o DictRepr(Tail(s), FALSE)
        ELSE Head(s) \o DictRepr(Tail(s), TRUE)
    ELSE IF Head(s) = Quote THEN "'" \o DictRepr(Tail(s), TRUE)
    ELSE IF Head(s) = ":" THEN ": " \o DictRepr(Tail(s), FALSE)
    ELSE IF Head(s) = "," THEN ", " \o DictRepr(Tail(s), FALSE)
    ELSE IF StartsWith(s, "null") THEN "None" \o DictRepr(SubSeq(s, 5, Len(s)), FALSE)
    ELSE IF StartsWith(s, "true") THEN "True" \o DictRepr(SubSeq(s, 5, Len(s)), FALSE)
    ELSE IF StartsWith(s, "false") THEN "False" \o DictRepr(SubSeq(s, 6, Len(s)), FALSE)
    ELSE Head(s) \o DictRepr(Tail(s), FALSE)

\* trace entries numbered from 0
TraceEntryFromZero(n, thought, action, observation) ==
    [step |-> n - 1, thought |-> thought, action |-> action, observation |-> observation]

TraceEntry(n, thought, action, observation) ==
    [step |-> n, thought |-> thought, action |-> action, observation |-> observation]

NoResult == [some |-> FALSE, final_text |-> "", thoughts |-> "", trace |-> <<>>]

AgentResult(final_text, thoughts, tr) ==
    [some |-> TRUE, final_text |-> final_text, thoughts |-> thoughts, trace |-> tr]

NO_ACTION_TEXT == "I could not determine an action or final answer."

MAX_STEPS_TEXT == "Reached max reasoning steps without a final answer."

parse_error_obs(line) ==
    Observation("Failed to parse action line: " \o line, FALSE, "parse_error", "")

\* f"{ACTION_PREFIX} {action.name}({action.args})"
action_pad(action) ==
    ACTION_PREFIX \o " " \o action.name \o "(" \o DictRepr(action.args.canon, FALSE) \o ")"

\* what a step derives from its lines once the action line is parsed
step_parsed(thought, action, final_text, parsed, decision) ==
    [decision |-> decision,
     thought |-> thought,
     action_line |-> action,
     final_text |-> final_text,
     action |-> IF decision = "dispatch" THEN action_of(parsed) ELSE NoAction,
     pad |-> IF decision = "dispatch" THEN action_pad(action_of(parsed)) ELSE "",
     start |-> IF decision = "dispatch"
               THEN run_tool_start(parsed.name, parsed.args)
               ELSE [ev |-> NoEv, obs |-> NoObs]]

step_lines(thought, action, final, final_text, parsed) ==
    step_parsed(thought, action, final_text, parsed,
                step_decision(final, action, parsed.st))

\* everything a step derives from the stripped model text before it awaits
step_of(mt) ==
    step_lines(thought_line(mt), action_line(mt), final_line(mt), final_text_of(mt),
               parse_action_line(action_line(mt)))

-----------------------------------------------------------------------------
(* Bounds and inputs of a run                                              *)

\* steps of one run whose action is dispatched to run_tool_safely
MaxDispatch == 2

\* timeouts that fire in one run
MaxTimeouts == 1

\* steps of one run whose action line does not parse
MaxParseErrors == 1

\* an AgentConfig
Config(steps, retries, secs) ==
    [max_steps |-> steps, max_retries |-> retries, tool_timeout_sec |-> secs,
     allowed_tools |-> NoneList]

\* an AgentConfig whose allowed_tools is the list names
WithAllowed(c, names) == [c EXCEPT !.allowed_tools = SomeList(names)]

\* the configuration a run starts with, the entry point that made it, and
\* whether the caller of the entry point specified any of it
Started(entry, configured, c) ==
    [entry |-> entry, configured |-> configured, max_steps |-> c.max_steps,
     max_retries |-> c.max_retries, tool_timeout_sec |-> c.tool_timeout_sec,
     allowed_tools |-> c.allowed_tools]

\* Agent(): self.config = config or AgentConfig(), every field None
AgentDefault == Started("Agent", FALSE, Config(NoneInt, NoneInt, NoneInt))

\* Agent(config)
Agent(config) == Started("Agent", TRUE, config)

\* the defaults of the keyword arguments of integration.run_agent_chat
RUN_AGENT_CHAT_MAX_STEPS == 6

RUN_AGENT_CHAT_MAX_RETRIES == 2

RUN_AGENT_CHAT_TOOL_TIMEOUT_SEC == 15

\* a keyword argument: the value the caller gives, or the default
kwarg(given, default) == IF given.set THEN given.v ELSE default

\* integration.run_agent_chat with the keyword arguments kw the caller gives
run_agent_chat(kw) ==
    Started("run_agent_chat",
            kw.max_steps.set \/ kw.max_retries.set \/ kw.tool_timeout_sec.set,
            Config(SomeInt(kwarg(kw.max_steps, RUN_AGENT_CHAT_MAX_STEPS)),
                   SomeInt(kwarg(kw.max_retries, RUN_AGENT_CHAT_MAX_RETRIES)),
                   SomeInt(kwarg(kw.tool_timeout_sec, RUN_AGENT_CHAT_TOOL_TIMEOUT_SEC))))

\* AgentConfig(): every field None; and configurations that set fields
AgentConfigs ==
    {AgentDefault,
     Agent(Config(SomeInt(1), SomeInt(0), NoneInt)),
     Agent(Config(SomeInt(2), SomeInt(3), SomeInt(5))),
     Agent(Config(SomeInt(3), NoneInt, SomeInt(0)))}

\* the runs a caller starts without any configuration: Agent().run(...) and
\* run_agent_chat(message)
UnconfiguredRuns == {AgentDefault, run_agent_chat(Config(NoneInt, NoneInt, NoneInt))}

\* what the model may answer in a step
LLMOutputs ==
    {"Thought: done\nFinalAnswer: 42",
     "Action: calculator({\"expression\": \"2+2\"})\n  FinalAnswer: 4 ",
     "I am not sure.",
     "Thought: compute\nAction: calculator({\"expression\": \"2+2\"})\n",
     "Action: fetch({\"url\": \"u\"})",
     "Action: nosuch({})",
     "Action: ({\"a\": 1})",
     "Action: broken({})",
     "Action: calculator({\"timeout\": 5})",
     "Thought: hm\nAction: calculator(not json)"}

\* model_text = response["content"].strip()
ModelTexts == {Strip(t) : t \in LLMOutputs}

\* answers whose Action line spells the prefix in another case, next to
\* answers that spell it as policy.ACTION_PREFIX does
CaseOutputs ==
    {"action: calculator({\"expression\": \"2+2\"})",
     "Thought: fetch it\nACTION: fetch({\"url\": \"u\"})",
     "Action: calculator({\"expression\": \"2+2\"})",
     "Thought: done\nFinalAnswer: 42"}

CaseTexts == {Strip(t) : t \in CaseOutputs}

\* runs whose configuration allows one tool of the registry
AllowedRuns ==
    {Agent(WithAllowed(Config(SomeInt(2), SomeInt(1), NoneInt), <<"fetch">>))}

\* the runs in which the model gives these answers
CaseRuns == {Agent(Config(SomeInt(2), NoneInt, NoneInt))}

\* step_of on the model texts of the run, computed once
StepTable == [mt \in ModelTexts \cup CaseTexts |-> step_of(mt)]

DispatchCount(tr) == Cardinality({i \in 1..Len(tr) : tr[i].action.some})

ParseErrorCount(tr) == Cardinality({i \in 1..Len(tr) : ~tr[i].action.some})

-----------------------------------------------------------------------------
(* Agent.run: the loop                                                     *)

\* range(1, max_steps + 2)
loop_continues_one_more(n) == n + 1 <= max_steps + 1

\* range(1, max_steps + 1) has a value after n
loop_continues(n) == n + 1 <= max_steps

\* range(max_retries) has a value after the attempt-th one
retry_continues(n) == n < max_retries

\* return AgentResult(...)
Return(final_text) ==
    /\ a_pc' = "returned"
    /\ result' = AgentResult(final_text, Join(scratchpad_lines', "\n"), trace')
    /\ n_results' = n_results + 1

\* lines 38, 44-48: the tools the system prompt names
allowed_tools == py_or_list(cfg.allowed_tools, RegistryKeys)

system_prompt == "You may use these tools: " \o Join(allowed_tools, ", ")

\* the history and the user input of the run
HISTORY == <<>>

USER_INPUT == "what is 2+2?"

\* lines 51-53: the conversation before the first step
conversation(history, user_input) ==
    <<[role |-> "system", content |-> system_prompt]>>
        \o history \o <<[role |-> "user", content |-> user_input]>>

\* lines 57-64: the scratchpad is appended as one more assistant message
inject_scratchpad(msgs, lines) ==
    IF lines # <<>>
    THEN Append(msgs, [role |-> "assistant",
                       content |-> "(previous reasoning)\n" \o Join(lines, "\n")])
    ELSE msgs

\* the end of a step that did not return: the for statement goes on to the
\* next step and awaits the model, or is exhausted (lines 120-125)
NextIteration(msgs) ==
    IF loop_continues(step)
    THEN /\ step' = step + 1
         /\ messages' = inject_scratchpad(msgs, scratchpad_lines')
         /\ a_pc' = "llm"
         /\ UNCHANGED <<result, n_results>>
    ELSE /\ step' = step
         /\ messages' = msgs
         /\ Return(MAX_STEPS_TEXT)

\* lines 112-118: the trace entry and the scratchpad lines of a tool step
RecordStep(s, o) ==
    /\ trace' = Append(trace, TraceEntry(step, s.thought, s.action, o))
    /\ scratchpad_lines' =
           scratchpad_lines
               \o (IF s.thought # "" THEN <<s.thought>> ELSE <<>>)
               \o <<s.pad, OBSERVATION_PREFIX \o " " \o o.text>>
    /\ NextIteration(messages)

\* a parse failure that is recorded in the trace only
RecordParseErrorTraceOnly(s, o) ==
    /\ trace' = Append(trace, TraceEntry(step, s.thought, NoAction, o))
    /\ scratchpad_lines' = scratchpad_lines
    /\ NextIteration(messages)

\* lines 95-102: the trace entry and the scratchpad line of a parse failure
RecordParseError(s, o) ==
    /\ trace' = Append(trace, TraceEntry(step, s.thought, NoAction, o))
    /\ scratchpad_lines' = Append(scratchpad_lines, OBSERVATION_PREFIX \o " " \o o.text)
    /\ NextIteration(messages)

Invocation(n, a, name) ==
    [step |-> n, attempt |-> a, name |-> name, mode |-> ToolRegistry[name],
     abandoned |-> FALSE]

\* the invocation run_tool_safely is awaiting
awaited == CHOOSE i \in live : ~i.abandoned

\* asyncio.wait_for timing out (_run_with_timeout): a coroutine is cancelled;
\* for a plain function only the future of run_in_executor is cancelled, and
\* the worker thread goes on executing the tool body
wait_for_timeout(i, running) ==
    IF i.mode = "sync"
    THEN (running \ {i}) \cup {[i EXCEPT !.abandoned = TRUE]}
    ELSE running \ {i}

\* a new Agent whose configuration is one of configs
AgentNew(configs) ==
    /\ cfg \in configs
    /\ a_pc = "new"
    /\ step = 0
    /\ trace = <<>>
    /\ scratchpad_lines = <<>>
    /\ messages = <<>>
    /\ model_text = ""
    /\ attempt = 0
    /\ obs = NoObs
    /\ tool_ev = NoEv
    /\ result = NoResult
    /\ n_results = 0
    /\ live = {}
    /\ n_timeouts = 0
    /\ late_effects = 0

AgentInit == AgentNew(AgentConfigs)

\* run() up to the first await (lines 33-67)
RunStart ==
    /\ a_pc = "new"
    /\ UNCHANGED <<cfg, trace, scratchpad_lines, model_text, attempt, obs, tool_ev,
                   live, n_timeouts, late_effects>>
    /\ NextIteration(conversation(HISTORY, USER_INPUT))
    /\ UNCHANGED <<parseVars, retrVars, sysVars>>

\* await llm.ainvoke(messages) returns text (lines 67-110, to the next await)
LLMReturns(text) ==
    /\ a_pc = "llm"
    /\ model_text' = Strip(text)
    /\ \E s \in {StepTable[Strip(text)]} :
           CASE s.decision = "final" ->
                  /\ UNCHANGED <<step, trace, scratchpad_lines, messages, attempt,
                                 obs, tool_ev, live>>
                  /\ Return(s.final_text)
             [] s.decision = "no_action" ->
                  /\ UNCHANGED <<step, trace, scratchpad_lines, messages, attempt,
                                 obs, tool_ev, live>>
                  /\ Return(NO_ACTION_TEXT)
             [] s.decision = "raise" ->
                  /\ a_pc' = "raised"
                  /\ UNCHANGED <<step, trace, scratchpad_lines, messages, attempt,
                                 obs, tool_ev, live, result, n_results>>
             [] s.decision = "parse_error" ->
                  /\ ParseErrorCount(trace) < MaxParseErrors
                  /\ obs' = parse_error_obs(s.action_line)
                  /\ RecordParseError(s, parse_error_obs(s.action_line))
                  /\ tool_ev' = NoEv
                  /\ UNCHANGED <<attempt, live>>
             [] s.decision = "dispatch" /\ s.start.obs.some ->
                  \* run_tool_safely returns without awaiting: every attempt
                  \* of the retry loop fails at once
                  /\ DispatchCount(trace) < MaxDispatch
                  /\ attempt' = max_retries
                  /\ obs' = s.start.obs
                  /\ tool_ev' = s.start.ev
                  /\ RecordStep(s, s.start.obs)
                  /\ UNCHANGED live
             [] s.decision = "dispatch" /\ ~s.start.obs.some ->
                  \* the first attempt starts the tool body and awaits it
                  /\ DispatchCount(trace) < MaxDispatch
                  /\ attempt' = 1
                  /\ obs' = NoObs
                  /\ tool_ev' = NoEv
                  /\ live' = live \cup {Invocation(step, 1, s.action.name)}
                  /\ a_pc' = "tool"
                  /\ UNCHANGED <<step, trace, scratchpad_lines, messages, result,
                                 n_results>>
    /\ UNCHANGED <<cfg, n_timeouts, late_effects>>
    /\ UNCHANGED <<parseVars, retrVars, sysVars>>

\* lines 108-118 after the awaited run_tool_safely met ev: break or retry
AfterAttempt(ev, running) ==
    LET o == run_tool_finish(awaited.name, timeout, ev)
    IN  /\ obs' = o
        /\ tool_ev' = ev
        /\ IF o.success \/ ~retry_continues(attempt)
           THEN /\ RecordStep(StepTable[model_text], o)
                /\ live' = running
                /\ UNCHANGED attempt
           ELSE /\ attempt' = attempt + 1
                /\ live' = running \cup {Invocation(step, attempt + 1, awaited.name)}
                /\ UNCHANGED <<a_pc, step, trace, scratchpad_lines, messages, result,
                               n_results>>

\* the tool body returns r before the timeout
ToolReturns(r) ==
    /\ a_pc = "tool"
    /\ AfterAttempt(Ev("return", "", "", <<r>>), live \ {awaited})
    /\ UNCHANGED <<cfg, model_text, n_timeouts, late_effects>>
    /\ UNCHANGED <<parseVars, retrVars, sysVars>>

\* the tool body raises e before the timeout
ToolRaises(e) ==
    /\ a_pc = "tool"
    /\ AfterAttempt(Ev("raise", e.cls, e.msg, <<>>), live \ {awaited})
    /\ UNCHANGED <<cfg, model_text, n_timeouts, late_effects>>
    /\ UNCHANGED <<parseVars, retrVars, sysVars>>

\* the timeout expires while the tool body is executing
TimeoutFires ==
    /\ a_pc = "tool"
    /\ n_timeouts < MaxTimeouts
    /\ n_timeouts' = n_timeouts + 1
    /\ AfterAttempt(Ev("timeout", "", "", <<>>), wait_for_timeout(awaited, live))
    /\ UNCHANGED <<cfg, model_text, late_effects>>
    /\ UNCHANGED <<parseVars, retrVars, sysVars>>

\* an abandoned tool body, still executing in its worker thread, runs to
\* its end: what it does to the state it shares with the rest of the process
\* happens now, and its result goes to a cancelled future
AbandonedCompletes(z) ==
    /\ z \in live
    /\ z.abandoned
    /\ live' = live \ {z}
    /\ late_effects' = late_effects + 1
    /\ UNCHANGED <<cfg, a_pc, step, trace, scratchpad_lines, messages, model_text,
                   attempt, obs, tool_ev, result, n_results, n_timeouts>>
    /\ UNCHANGED <<parseVars, retrVars, sysVars>>

AgentSteps(outputs) ==
    \/ RunStart
    \/ \E text \in outputs : LLMReturns(text)
    \/ \E r \in ToolResults : ToolReturns(r)
    \/ \E e \in ToolErrors : ToolRaises(e)
    \/ TimeoutFires
    \/ \E z \in live : AbandonedCompletes(z)

AgentNext == AgentSteps(LLMOutputs)

-----------------------------------------------------------------------------
(* Retrieval (pipeline.py, memory.py, docs.py, helper.py).  Scores are     *)
(* counted in twentieths (0.05), rank scores in ten-thousandths.           *)

\* difflib.SequenceMatcher: the length of the common run at a[i], b[j]
RECURSIVE RunLen(_, _, _, _, _, _)
RunLen(a, b, i, j, ahi, bhi) ==
    IF i < ahi /\ j < bhi /\ At(a, i) = At(b, j)
    THEN 1 + RunLen(a, b, i + 1, j + 1, ahi, bhi)
    ELSE 0

\* find_longest_match on a[alo..ahi), b[blo..bhi): the longest block, the
\* earliest in a and then the earliest in b among the longest
find_longest_match(a, b, alo, ahi, blo, bhi) ==
    LET P == (alo..(ahi - 1)) \X (blo..(bhi - 1))
        len == [q \in P |-> RunLen(a, b, q[1], q[2], ahi, bhi)]
        size == IF P = {} THEN 0 ELSE SetMax({len[q] : q \in P})
        best == {q \in P : len[q] = size}
        i == SetMin({q[1] : q \in best})
        j == SetMin({q[2] : q \in {x \in best : x[1] = i}})
    IN  IF size = 0 THEN <<alo, blo, 0>> ELSE <<i, j, size>>

\* get_matching_blocks: the sizes of the blocks, summed
RECURSIVE matching_size(_, _, _, _, _, _)
block_and_rest(a, b, alo, ahi, blo, bhi, m) ==
    IF m[3] = 0 THEN 0
    ELSE m[3] + matching_size(a, b, alo, m[1], blo, m[2])
              + matching_size(a, b, m[1] + m[3], ahi, m[2] + m[3], bhi)

matching_size(a, b, alo, ahi, blo, bhi) ==
    block_and_rest(a, b, alo, ahi, blo, bhi, find_longest_match(a, b, alo, ahi, blo, bhi))

\* SequenceMatcher(None, a, b).ratio() > 0.92, ratio() being 2.0 * M / T
\* (1.0 when T = 0)
ratio_above(a, b) ==
    IF Len(a) + Len(b) = 0 THEN TRUE
    ELSE 50 * matching_size(a, b, 1, Len(a) + 1, 1, Len(b) + 1) > 23 * (Len(a) + Len(b))

\* WORD_RE = re.compile(r"\w+") on lower-cased text
WordChars ==
    {At(LowerChars, i) : i \in 1..Len(LowerChars)} \cup DigitChars \cup {"_"}

RECURSIVE WordRuns(_, _)
\* WORD_RE.findall(s) as a set; cur is the word being read
WordRuns(s, cur) ==
    IF s = "" THEN (IF cur = "" THEN {} ELSE {cur})
    ELSE IF Head(s) \in WordChars THEN WordRuns(Tail(s), cur \o Head(s))
    ELSE (IF cur = "" THEN {} ELSE {cur}) \cup WordRuns(Tail(s), "")

\* simple_keyword_score, in twentieths
simple_keyword_score(text, query) ==
    LET q_words == WordRuns(Lower(query), "")
        t_words == WordRuns(Lower(text), "")
    IN  IF q_words = {} THEN 0
        ELSE (20 * Cardinality(q_words \cap t_words)) \div Cardinality(q_words)

\* query.split() has a word
has_split_word(query) == Strip(query) # ""

RECURSIVE InsertDescBeforeEqual(_, _, _)
\* an insertion that puts x before the entries equal to it
InsertDescBeforeEqual(sorted, x, f) ==
    IF sorted = <<>> THEN <<x>>
    ELSE IF Head(sorted)[f] > x[f]
    THEN <<Head(sorted)>> \o InsertDescBeforeEqual(Tail(sorted), x, f)
    ELSE <<x>> \o sorted

RECURSIVE InsertDesc(_, _, _)
\* x put into sorted (non-increasing by field f) after the entries not below it
InsertDesc(sorted, x, f) ==
    IF sorted = <<>> THEN <<x>>
    ELSE IF Head(sorted)[f] >= x[f] THEN <<Head(sorted)>> \o InsertDesc(Tail(sorted), x, f)
    ELSE <<x>> \o sorted

RECURSIVE SortDesc(_, _, _)
\* sorted(seq, key=lambda x: x[f], reverse=True), a stable sort; acc is sorted
SortDesc(seq, acc, f) ==
    IF seq = <<>> THEN acc ELSE SortDesc(Tail(seq), InsertDesc(acc, Head(seq), f), f)

\* a candidate dict: keyword_score is -1 while the key is absent; is_dict says
\* that "content" holds a dict instead of a str
Item(type, content, score, is_dict_content) ==
    [type |-> type, content |-> content, score |-> score, keyword_score |-> -1,
     is_dict_content |-> is_dict_content, rank_score |-> 0]

\* what a call gives: the list it returns, or an exception; and the locals
\* of retrieve_context as far as it gets: raw is the list the dict of lines
\* 115-118 is built from, combined the list of line 119, scored the list
\* unique with its rank scores (line 160)
RetOk(items) ==
    [st |-> "ok", items |-> items, raw |-> <<>>, combined |-> <<>>, scored |-> <<>>]

RetRaise == [st |-> "raise", items |-> <<>>, raw |-> <<>>, combined |-> <<>>, scored |-> <<>>]

\* default thresholds of retrieve_context (0.7), the scores of corpus items
\* (0.85, 0.8), the floor of the cutoff (0.5 as a rank score)
MEM_THRESHOLD == 14

DOC_THRESHOLD == 14

MEM_CORPUS_SCORE == 17

DOC_CORPUS_SCORE == 16

CUTOFF_FLOOR == 5000

K_MEMORY == 10

K_DOCS == 5

KEYWORD_TOP_K == 200

Prefix(seq, k) == SubSeq(seq, 1, IF Len(seq) < k THEN Len(seq) ELSE k)

RECURSIVE DedupBy(_, _, _)
\* the entries of seq whose field f was not seen before, in order
DedupBy(seq, seen, f) ==
    IF seq = <<>> THEN <<>>
    ELSE IF Head(seq)[f] \in seen THEN DedupBy(Tail(seq), seen, f)
    ELSE <<Head(seq)>> \o DedupBy(Tail(seq), seen \cup {Head(seq)[f]}, f)

\* helper._extract_texts_from_faiss_index: one {"content", "metadata"} dict
\* per distinct page_content of the docstore
extract_texts(docs) == DedupBy([i \in 1..Len(docs) |-> [content |-> docs[i].text]], {}, "content")

\* index.similarity_search_with_score(query, k): the k nearest, nearest first
similarity_search(docs, k) ==
    Prefix(SortDesc([i \in 1..Len(docs) |-> [text |-> docs[i].text, negdist |-> 0 - docs[i].dist,
                                              dist |-> docs[i].dist]], <<>>, "negdist"), k)

\* memory.query_memory: sim = 1 - dist; the keyword fallback calls .lower()
\* on a dict as soon as the index has a text and the query has a word
query_memory(query, store, search_ok, threshold) ==
    IF ~store.exists THEN RetOk(<<>>)
    ELSE LET found == IF search_ok THEN similarity_search(store.docs, K_MEMORY) ELSE <<>>
             sims == [i \in 1..Len(found) |->
                         [content |-> found[i].text, score |-> 20 - found[i].dist]]
             results == SelectSeq(sims, LAMBDA r : r.score >= threshold)
         IN  IF extract_texts(store.docs) # <<>> /\ has_split_word(query)
             THEN RetRaise
             ELSE RetOk(DedupBy(SortDesc(results, <<>>, "score"), {}, "content"))

\* docs.query_docs: sim = 1 - dist / 2; nothing is caught
query_docs(query, store, search_ok, threshold) ==
    IF ~search_ok THEN RetRaise
    ELSE LET found == similarity_search(store.docs, K_DOCS)
             sims == [i \in 1..Len(found) |->
                         [content |-> found[i].text, score |-> 20 - found[i].dist \div 2]]
         IN  RetOk(SelectSeq(sims, LAMBDA r : r.score >= threshold))

\* lines 92-106: the corpus items of one index; content is the dict that
\* helper._extract_texts_from_faiss_index returns for a text
corpus_of_index(scan_ok, store, type, score) ==
    IF ~scan_ok THEN <<>>
    ELSE [i \in 1..Len(extract_texts(store.docs)) |->
             Item(type, extract_texts(store.docs)[i].content, score, TRUE)]

\* pipeline.keyword_search_corpus: simple_keyword_score calls text.lower()
keyword_search_corpus(corpus, query, top_k) ==
    IF \E i \in 1..Len(corpus) : corpus[i].is_dict_content THEN RetRaise
    ELSE LET scored == [i \in 1..Len(corpus) |->
                           [corpus[i] EXCEPT !.keyword_score =
                                simple_keyword_score(corpus[i].content, query)]]
         IN  RetOk(Prefix(SortDesc(SelectSeq(scored, LAMBDA c : c.keyword_score > 0),
                                   <<>>, "keyword_score"), top_k))

\* the key of the dict comprehension: (type, content.strip().lower()[:400])
candidate_key(item) == <<item.type, Prefix(Lower(Strip(item.content)), 400)>>

RECURSIVE dict_values(_, _)
\* list({key(item): item for item in items}.values()): a key keeps its
\* first position and its last item
dict_values(items, acc) ==
    IF items = <<>> THEN acc
    ELSE LET hit == {i \in 1..Len(acc) : candidate_key(acc[i]) = candidate_key(Head(items))}
         IN  dict_values(Tail(items),
                         IF hit = {} THEN Append(acc, Head(items))
                         ELSE [acc EXCEPT ![SetMin(hit)] = Head(items)])

\* the texts of the stores, and whether SequenceMatcher finds a (stripped)
\* text and a content more than 0.92 alike, computed once per pair
StoreTexts == {"the cat sat", "The cat sat", "the cat sat.", "the cat sat..", "Dog runs", "init"}

RatioTable == [q \in StoreTexts \X StoreTexts |-> ratio_above(q[1], q[2])]

\* line 131
is_duplicate(text, content) == RatioTable[<<text, content>>]

\* u.update(item): the keys of item replace those of u; keyword_score is a
\* key of the items that come from keyword_search_corpus only
dict_update(u, item) ==
    [item EXCEPT !.keyword_score =
        IF item.keyword_score >= 0 THEN item.keyword_score ELSE u.keyword_score]

\* lines 130-137 for one item: the first similar entry absorbs it
merge_item(unique, item) ==
    LET dup == {i \in 1..Len(unique) : is_duplicate(Strip(item.content), unique[i].content)}
    IN  IF dup = {} THEN Append(unique, item)
        ELSE IF item.score > unique[SetMin(dup)].score
        THEN [unique EXCEPT ![SetMin(dup)] = dict_update(unique[SetMin(dup)], item)]
        ELSE unique

RECURSIVE merge_duplicates(_, _)
\* lines 124-137
merge_duplicates(combined, unique) ==
    IF combined = <<>> THEN unique
    ELSE merge_duplicates(Tail(combined),
                          IF Strip(Head(combined).content) = "" THEN unique
                          ELSE merge_item(unique, Head(combined)))

\* the cosine of the query and a content, by what the embedding service gives
cosine_sim(emb, content) ==
    CASE emb = "fail" -> 0
      [] emb = "flat" -> 10
      [] OTHER -> IF "cat" \in WordRuns(Lower(content), "") THEN 18 ELSE 2

\* the rank score without the weight of the type
rank_score_unweighted(c, emb) ==
    (11 * c.score + 7 * cosine_sim(emb, c.content)
        + 2 * (IF c.keyword_score >= 0 THEN c.keyword_score ELSE 0)) * 25

\* line 159, in ten-thousandths: (0.55 b + 0.35 c + 0.10 k) * type_weight
rank_score(c, emb) ==
    (11 * c.score + 7 * cosine_sim(emb, c.content)
        + 2 * (IF c.keyword_score >= 0 THEN c.keyword_score ELSE 0))
    * (IF c.type = "memory" THEN 27 ELSE 25)

RECURSIVE SumOf(_)
SumOf(seq) == IF seq = <<>> THEN 0 ELSE Head(seq) + SumOf(Tail(seq))

\* numbers beyond 2^31 as <<millions, rest>>
WideSquare(x) ==
    LET mid == 2 * (x \div 1000) * (x % 1000)
        low == (mid % 1000) * 1000 + (x % 1000) * (x % 1000)
    IN  <<(x \div 1000) * (x \div 1000) + mid \div 1000 + low \div 1000000, low % 1000000>>

WideTimes(w, m) == <<w[1] * m + (w[2] * m) \div 1000000, (w[2] * m) % 1000000>>

RECURSIVE WideSumSquares(_)
WideSumSquares(seq) ==
    IF seq = <<>> THEN <<0, 0>>
    ELSE LET h == WideSquare(Head(seq))
             t == WideSumSquares(Tail(seq))
         IN  <<h[1] + t[1] + (h[2] + t[2]) \div 1000000, (h[2] + t[2]) % 1000000>>

WideLeq(v, w) == v[1] < w[1] \/ (v[1] = w[1] /\ v[2] <= w[2])

Abs(x) == IF x < 0 THEN 0 - x ELSE x

\* r >= mean - 0.5 * std for the rank scores ranks (np.mean, np.std): with
\* d = n r - sum, that is d >= 0 or 4 n d^2 <= the sum of all squared d
above_mean_cut(r, ranks) ==
    LET n == Len(ranks)
        d == [i \in 1..n |-> Abs(n * ranks[i] - SumOf(ranks))]
    IN  \/ n * r >= SumOf(ranks)
        \/ WideLeq(WideTimes(WideSquare(Abs(n * r - SumOf(ranks))), 4 * n),
                   WideSumSquares(d))

\* the cutoff without its floor
passes_cutoff_mean_only(r, ranks) == above_mean_cut(r, ranks)

\* lines 166-170: rank_score >= max(0.5, mean - 0.5 * std)
passes_cutoff(r, ranks) == r >= CUTOFF_FLOOR /\ above_mean_cut(r, ranks)

\* lines 145-160: every entry of unique gets its rank_score
score_all(unique, emb) ==
    [i \in 1..Len(unique) |-> [unique[i] EXCEPT !.rank_score = rank_score(unique[i], emb)]]

\* lines 162-171
cut_and_sort(scored) ==
    LET ranks == [i \in 1..Len(scored) |-> scored[i].rank_score]
    IN  SortDesc(SelectSeq(scored, LAMBDA c : passes_cutoff(c.rank_score, ranks)),
                 <<>>, "rank_score")

\* lines 139-171
rank_and_cut(unique, emb) ==
    [RetOk(cut_and_sort(score_all(unique, emb))) EXCEPT !.scored = score_all(unique, emb)]

sem_items(type, found) ==
    [i \in 1..Len(found) |-> Item(type, found[i].content, found[i].score, FALSE)]

\* lines 115-171, from the raw candidates
retrieve_merge(raw, emb) ==
    [rank_and_cut(merge_duplicates(dict_values(raw, <<>>), <<>>), emb)
        EXCEPT !.raw = raw, !.combined = dict_values(raw, <<>>)]

\* lines 108-171, from the semantic items and the corpus of the two indexes
retrieve_from(mem_items, doc_items, index_corpus, query, emb) ==
    LET kw == keyword_search_corpus(index_corpus \o mem_items \o doc_items, query,
                                    KEYWORD_TOP_K)
    IN  IF kw.st = "raise" THEN RetRaise
        ELSE retrieve_merge(mem_items \o doc_items \o kw.items, emb)

\* lines 85-106
retrieve_sem(mem_sem, doc_sem, in) ==
    IF mem_sem.st = "raise" \/ doc_sem.st = "raise" THEN RetRaise
    ELSE retrieve_from(sem_items("memory", mem_sem.items), sem_items("doc", doc_sem.items),
                       corpus_of_index(in.mem_scan_ok, in.mem, "memory", MEM_CORPUS_SCORE)
                           \o corpus_of_index(in.doc_scan_ok, in.doc, "doc", DOC_CORPUS_SCORE),
                       in.query, in.emb)

retrieve_context(in) ==
    retrieve_sem(query_memory(in.query, in.mem, in.search_ok, MEM_THRESHOLD),
                 query_docs(in.query, in.doc, in.search_ok, DOC_THRESHOLD), in)

\* documents one index holds
MaxIndexDocs == 2

\* the lists of at most MaxIndexDocs documents with distinct texts; dist is
\* the distance FAISS reports between the query and the text, in twentieths
DocLists(texts, dists) ==
    UNION {{d \in [1..n -> [text : texts, dist : dists]] :
               \A i, j \in 1..n : i # j => d[i].text # d[j].text} : n \in 0..MaxIndexDocs}

\* an index directory with documents, or none: get_or_create_faiss_index and
\* get_or_create_docs_index then make an index of the one text "init", at one
\* of the distances init_dists from the query
Stores(texts, dists, init_dists) ==
    {[exists |-> TRUE, docs |-> d] : d \in DocLists(texts, dists)}
        \cup {[exists |-> FALSE, docs |-> <<[text |-> "init", dist |-> d]>>] : d \in init_dists}

Queries == {"cat", " "}

RetrieveInputs ==
    [query : Queries,
     mem : Stores({"the cat sat", "The cat sat", "the cat sat.."}, {3, 6}, {16}),
     doc : Stores({"the cat sat.", "Dog runs"}, {2, 12}, {2, 16}),
     search_ok : BOOLEAN,          \* embeddings.embed_query works in the searches
     mem_scan_ok : BOOLEAN,        \* the memory index loads at lines 95-97
     doc_scan_ok : BOOLEAN,        \* the document index loads at lines 102-104
     emb : {"fail", "flat", "near"}]

RetNone == [st |-> "none", items |-> <<>>, raw |-> <<>>, combined |-> <<>>, scored |-> <<>>]

RetrieveInit ==
    /\ r_pc = "ready"
    /\ r_in \in RetrieveInputs
    /\ r_out = RetNone

\* one call of retrieve_context
RetrieveCall ==
    /\ r_pc = "ready"
    /\ r_out' = retrieve_context(r_in)
    /\ r_pc' = "done"
    /\ UNCHANGED r_in

-----------------------------------------------------------------------------
(* The embedding cache (embeddings_cache.py): a JSON file holding one dict, *)
(* read whole by load_cache and written whole by save_cache.  Callers run   *)
(* get_or_create_embedding concurrently; embed_func is a network call.      *)

\* the concurrent callers, the texts they ask for, and the calls each makes
Callers == {1, 2}

CacheTexts == {"cat", "dog"}

MaxCacheCalls == 2

\* _hash_text: the sha256 digest of the text, one-to-one on CacheTexts
hash_text(text) == "sha256(" \o text \o ")"

\* load_cache (lines 10-14): the dict in the file, {} when there is no file
load_cache == cache_file

\* save_cache (lines 16-19): the file is overwritten with the whole dict
save_cache(cache) == cache

CallerIdle == [pc |-> "idle", text |-> "", cache |-> {}, calls |-> 0, was_saved |-> FALSE]

CacheInit ==
    /\ cache_file = {}
    /\ cache_saved = {}
    /\ e_proc = [p \in Callers |-> CallerIdle]

\* lines 22-25: cache = load_cache(); key = _hash_text(text); the lookup
CacheLookup(p, text) ==
    /\ e_proc[p].pc = "idle"
    /\ e_proc[p].calls < MaxCacheCalls
    /\ e_proc' = [e_proc EXCEPT ![p] =
                     [pc |-> IF hash_text(text) \in load_cache THEN "idle" ELSE "miss",
                      text |-> text,
                      cache |-> load_cache,
                      calls |-> @.calls + 1,
                      was_saved |-> hash_text(text) \in cache_saved]]
    /\ UNCHANGED <<cache_file, cache_saved>>

\* line 26: embedding = embed_func(text)
CacheEmbed(p) ==
    /\ e_proc[p].pc = "miss"
    /\ e_proc' = [e_proc EXCEPT ![p].pc = "embedded"]
    /\ UNCHANGED <<cache_file, cache_saved>>

\* lines 27-29: cache[key] = embedding; save_cache(cache); return embedding
CacheSave(p) ==
    /\ e_proc[p].pc = "embedded"
    /\ cache_file' = save_cache(e_proc[p].cache \cup {hash_text(e_proc[p].text)})
    /\ cache_saved' = cache_saved \cup cache_file'
    /\ e_proc' = [e_proc EXCEPT ![p].pc = "idle"]

CacheNext ==
    \/ \E p \in Callers, text \in CacheTexts : CacheLookup(p, text)
    \/ \E p \in Callers : CacheEmbed(p)
    \/ \E p \in Callers : CacheSave(p)

-----------------------------------------------------------------------------
(* The memory store (memory.py): the index saved at FAISS_PATH and the list *)
(* in MEMORIES_PATH.  /memory/add, /memory/edit and /memory/delete are      *)
(* plain functions, which the server runs in worker threads.                *)

MemCallers == {1, 2}

MemTexts == {"likes tea", "owns a cat"}

MaxMemCalls == 2

NoIndex == [exists |-> FALSE, texts |-> {}]

\* get_or_create_faiss_index (lines 76-81): the texts of the index on disk,
\* or of a new index made from the text "init"
get_or_create_faiss_index ==
    IF m_index.exists THEN m_index.texts ELSE {"init"}

\* save_faiss_index (lines 84-95): the 'init' entries are dropped and the
\* whole index is written to FAISS_PATH
save_faiss_index(texts) ==
    [exists |-> TRUE, texts |-> {t \in texts : Lower(Strip(t)) # "init"}]

\* the nearest neighbour of text is at a distance below 1 - 0.9 when the
\* index holds the text itself
duplicate_of(text, texts) == {t \in texts : t = text}

\* list.append
append_if_absent(list, text) ==
    IF \E i \in 1..Len(list) : list[i] = text THEN list ELSE Append(list, text)

\* [m for m in mems if m != old_text]
without(list, text) == SelectSeq(list, LAMBDA x : x # text)

ListSet(list) == {list[i] : i \in 1..Len(list)}

MemCallerIdle ==
    [pc |-> "idle", op |-> "", text |-> "", new_text |-> "", local |-> {}, calls |-> 0,
     added |-> {}, removed |-> {}, ret |-> ""]

MemInit ==
    /\ m_index = NoIndex
    /\ m_json = <<>>
    /\ m_proc = [p \in MemCallers |-> MemCallerIdle]

\* a call that returns before it writes anything
MemReturnEarly(p, op, text, reason) ==
    /\ m_proc' = [m_proc EXCEPT ![p] =
                     [@ EXCEPT !.op = op, !.text = text, !.calls = @ + 1, !.ret = reason]]
    /\ UNCHANGED <<m_index, m_json>>

\* a call that has loaded the index and made the texts it will save
MemLoaded(p, op, text, new_text, local) ==
    /\ m_proc' = [m_proc EXCEPT ![p] =
                     [@ EXCEPT !.pc = "loaded", !.op = op, !.text = text,
                               !.new_text = new_text, !.local = local,
                               !.calls = @ + 1, !.ret = ""]]
    /\ UNCHANGED <<m_index, m_json>>

\* add_memory lines 124-142: the index is loaded, the duplicate test, and
\* the document is added to the loaded index
AddMemoryBegin(p, text) ==
    /\ m_proc[p].pc = "idle"
    /\ m_proc[p].calls < MaxMemCalls
    /\ IF duplicate_of(text, get_or_create_faiss_index) # {}
       THEN MemReturnEarly(p, "add", text, "Duplicate detected")
       ELSE MemLoaded(p, "add", text, "", get_or_create_faiss_index \cup {text})

\* edit_memory lines 188-210: the index is loaded, the tests, and the texts
\* of the index that replaces it
EditMemoryBegin(p, old_text, new_text) ==
    /\ m_proc[p].pc = "idle"
    /\ m_proc[p].calls < MaxMemCalls
    /\ IF old_text \notin get_or_create_faiss_index
       THEN MemReturnEarly(p, "edit", old_text, "Memory not found")
       ELSE IF duplicate_of(new_text, get_or_create_faiss_index) \ {old_text} # {}
       THEN MemReturnEarly(p, "edit", old_text, "Duplicate detected")
       ELSE MemLoaded(p, "edit", old_text, new_text,
                      (get_or_create_faiss_index \ {old_text}) \cup {new_text})

\* delete_memory lines 228-237: the index is loaded, the test, and the texts
\* of the index that replaces it; FAISS.from_documents raises on no documents
DeleteMemoryBegin(p, old_text) ==
    /\ m_proc[p].pc = "idle"
    /\ m_proc[p].calls < MaxMemCalls
    /\ IF old_text \notin get_or_create_faiss_index
       THEN MemReturnEarly(p, "delete", old_text, "Memory not found")
       ELSE IF get_or_create_faiss_index \ {old_text} = {}
       THEN MemReturnEarly(p, "delete", old_text, "raised")
       ELSE MemLoaded(p, "delete", old_text, "", get_or_create_faiss_index \ {old_text})

\* save_faiss_index(index): add_memory 143, edit_memory 212, delete_memory 239
MemSaveIndex(p) ==
    /\ m_proc[p].pc = "loaded"
    /\ m_index' = save_faiss_index(m_proc[p].local)
    /\ m_proc' = [m_proc EXCEPT ![p].pc = "saved"]
    /\ UNCHANGED m_json

\* the update of memories.json and the return: append_memory (63-71) for
\* add_memory 145-146, lines 215-223 of edit_memory, 242-249 of delete_memory
MemUpdateJson(p) ==
    /\ m_proc[p].pc = "saved"
    /\ m_json' =
           CASE m_proc[p].op = "add" -> append_if_absent(m_json, m_proc[p].text)
             [] m_proc[p].op = "edit" ->
                  Append(without(m_json, m_proc[p].text), m_proc[p].new_text)
             [] m_proc[p].op = "delete" -> without(m_json, m_proc[p].text)
    /\ m_proc' = [m_proc EXCEPT ![p] =
                     [@ EXCEPT !.pc = "idle",
                               !.ret = "ok",
                               !.added = CASE m_proc[p].op = "add" -> @ \cup {m_proc[p].text}
                                           [] m_proc[p].op = "edit" -> @ \cup {m_proc[p].new_text}
                                           [] OTHER -> @,
                               !.removed = IF m_proc[p].op = "add" THEN @
                                           ELSE @ \cup {m_proc[p].text}]]
    /\ UNCHANGED m_index

MemNext ==
    \/ \E p \in MemCallers, text \in MemTexts : AddMemoryBegin(p, text)
    \/ \E p \in MemCallers, o \in MemTexts, n \in MemTexts : EditMemoryBegin(p, o, n)
    \/ \E p \in MemCallers, text \in MemTexts : DeleteMemoryBegin(p, text)
    \/ \E p \in MemCallers : MemSaveIndex(p)
    \/ \E p \in MemCallers : MemUpdateJson(p)

-----------------------------------------------------------------------------
(* The HTTP API (main.py): the routes, new_session and chat, over the      *)
(* tables of ChatSession and ChatMessage rows.  Time is counted in minutes; *)
(* the content of a message is modelled by its length.                     *)

RATE_LIMIT == 20

WINDOW_MINUTES == 1

\* the limit of line 249
MAX_INPUT_CHARS == 20000

\* requests handled and minutes that pass in one run
MaxRequests == 3

MaxClock == 2

\* the path operations of main.py, in the order of their decorators; "{}" is
\* a path parameter
Routes ==
    <<[method |-> "GET", path |-> <<"health">>, endpoint |-> "health"],
      [method |-> "POST", path |-> <<"session">>, endpoint |-> "new_session"],
      [method |-> "GET", path |-> <<"sessions">>, endpoint |-> "list_sessions"],
      [method |-> "PATCH", path |-> <<"session", "{}">>, endpoint |-> "rename_session"],
      [method |-> "DELETE", path |-> <<"session", "{}">>, endpoint |-> "delete_session"],
      [method |-> "GET", path |-> <<"session", "{}", "history">>, endpoint |-> "get_history"],
      [method |-> "PATCH", path |-> <<"message", "{}", "edit">>,
       endpoint |-> "edit_and_regenerate"],
      [method |-> "POST", path |-> <<"session", "{}", "continue">>,
       endpoint |-> "continue_chat"],
      [method |-> "POST", path |-> <<"chat">>, endpoint |-> "chat"],
      [method |-> "GET", path |-> <<"memory", "list">>, endpoint |-> "list_memories"],
      [method |-> "POST", path |-> <<"memory", "add">>, endpoint |-> "add_memory_endpoint"],
      [method |-> "PATCH", path |-> <<"memory", "edit">>, endpoint |-> "edit_memory_endpoint"],
      [method |-> "DELETE", path |-> <<"memory", "delete">>,
       endpoint |-> "delete_memory_endpoint"]>>

\* a route's path matches a request path: the segments are equal, a path
\* parameter takes any one segment
path_matches(pattern, path) ==
    /\ Len(pattern) = Len(path)
    /\ \A i \in 1..Len(path) : pattern[i] = "{}" \/ pattern[i] = path[i]

\* the router: the first route matching path and method handles the request;
\* when only paths match the answer is 405, when none does 404
route(method, path) ==
    LET partial == {i \in 1..Len(Routes) : path_matches(Routes[i].path, path)}
        full == {i \in partial : Routes[i].method = method}
    IN  IF full # {} THEN [status |-> 200, endpoint |-> Routes[SetMin(full)].endpoint]
        ELSE IF partial # {} THEN [status |-> 405, endpoint |-> ""]
        ELSE [status |-> 404, endpoint |-> ""]

\* a ChatSession row and a ChatMessage row
ChatSession(id, now) ==
    [id |-> id, request_count |-> 0, created_at |-> now, updated_at |-> now]

ChatMessage(session_id, role, chars, now) ==
    [session_id |-> session_id, role |-> role, chars |-> chars, created_at |-> now]

\* db.get(ChatSession, session_id): ids are 1, 2, ... in the order of creation
session_exists(db, session_id) == session_id \in 1..Len(db.sessions)

\* lines 237-243: the messages of the session created in the last minute
recent_msgs(db, session_id) ==
    Cardinality({i \in 1..Len(db.messages) :
                    /\ db.messages[i].session_id = session_id
                    /\ db.messages[i].created_at >= db.now - WINDOW_MINUTES})

\* line 248: sum(len(m.content) for m in req.messages)
RECURSIVE total_chars(_)
total_chars(msgs) == IF msgs = <<>> THEN 0 ELSE Head(msgs) + total_chars(Tail(msgs))

\* the length test that is never true
input_too_long_never(chars) == FALSE

\* line 249
input_too_long(chars) == chars > MAX_INPUT_CHARS

\* what the model and the tools do in one call of pipeline.run_chat: the
\* model answers or the call fails, and the answer may ask for one tool
PipelineOutcomes ==
    {[llm |-> "reply", tool_call |-> "none"],
     [llm |-> "reply", tool_call |-> "returns"],
     [llm |-> "reply", tool_call |-> "raises"],
     [llm |-> "reply", tool_call |-> "unknown tool"],
     [llm |-> "reply", tool_call |-> "arguments are not JSON"],
     [llm |-> "raise", tool_call |-> "none"]}

\* pipeline.run_chat (lines 175-256): whether it returns a reply, the
\* functions it calls, and how the tool of a tool call is executed
run_chat(outcome) ==
    IF outcome.llm = "raise"
    THEN [st |-> "raise", ran |-> <<"run_chat", "retrieve_context", "llm.ainvoke">>,
          tools |-> <<>>]
    ELSE IF outcome.tool_call = "none"
    THEN [st |-> "ok", ran |-> <<"run_chat", "retrieve_context", "llm.ainvoke">>,
          tools |-> <<>>]
    ELSE IF outcome.tool_call = "arguments are not JSON"
    THEN [st |-> "raise", ran |-> <<"run_chat", "retrieve_context", "llm.ainvoke">>,
          tools |-> <<>>]
    ELSE IF outcome.tool_call = "unknown tool"
    THEN [st |-> "ok",
          ran |-> <<"run_chat", "retrieve_context", "llm.ainvoke", "get_tool",
                    "llm.ainvoke">>,
          tools |-> <<>>]
    ELSE [st |-> "ok",
          ran |-> <<"run_chat", "retrieve_context", "llm.ainvoke", "get_tool", "tool.run",
                    "llm.ainvoke">>,
          tools |-> <<[via |-> "tool.run", timeout |-> NoneInt, attempts |-> 1,
                       outcome |-> outcome.tool_call]>>]

NoBody == [session_id |-> NoneInt, messages |-> <<>>]

Response(req, status, session_id, call) ==
    [req |-> req, status |-> status, session_id |-> session_id, ran |-> call.ran,
     tools |-> call.tools]

NoCall == [st |-> "none", ran |-> <<>>, tools |-> <<>>]

\* new_session (lines 74-81)
new_session(db, req) ==
    [db |-> [db EXCEPT !.sessions = Append(@, ChatSession(Len(@) + 1, db.now))],
     resp |-> Response(req, 200, Len(db.sessions) + 1, NoCall)]

\* the messages of the request, saved (lines 253-264)
with_user_messages(db, body) ==
    [db EXCEPT
        !.messages = @ \o [i \in 1..Len(body.messages) |->
                              ChatMessage(body.session_id.v, "user", body.messages[i], db.now)],
        !.sessions[body.session_id.v].updated_at = db.now]

\* the assistant reply, saved (lines 272-278)
with_reply(db, session_id) ==
    [db EXCEPT
        !.messages = Append(@, ChatMessage(session_id, "assistant", 1, db.now)),
        !.sessions[session_id].request_count = @ + 1]

\* chat (lines 226-295)
chat(db, req, outcome) ==
    LET body == req.body
        sid == body.session_id
    IN  IF ~sid.set \/ sid.v = 0
        THEN [db |-> db, resp |-> Response(req, 400, 0, NoCall)]
        ELSE IF ~session_exists(db, sid.v)
        THEN [db |-> db, resp |-> Response(req, 404, 0, NoCall)]
        ELSE IF recent_msgs(db, sid.v) >= RATE_LIMIT
        THEN [db |-> db, resp |-> Response(req, 429, 0, NoCall)]
        ELSE IF input_too_long(total_chars(body.messages))
        THEN [db |-> db, resp |-> Response(req, 400, 0, NoCall)]
        ELSE IF run_chat(outcome).st = "raise"
        THEN [db |-> with_user_messages(db, body),
              resp |-> Response(req, 502, 0, run_chat(outcome))]
        ELSE [db |-> with_reply(with_user_messages(db, body), sid.v),
              resp |-> Response(req, 200, sid.v, run_chat(outcome))]

\* the application: the request is routed and its path operation runs
handle(db, req, outcome) ==
    LET r == route(req.method, req.path)
    IN  IF r.status # 200 THEN [db |-> db, resp |-> Response(req, r.status, 0, NoCall)]
        ELSE IF r.endpoint = "new_session" THEN new_session(db, req)
        ELSE IF r.endpoint = "chat" THEN chat(db, req, outcome)
        ELSE [db |-> db, resp |-> Response(req, 200, 0, NoCall)]

\* nineteen messages of one character
ManyMessages == [i \in 1..19 |-> 1]

\* the bodies of the chat requests: no session_id, session ids 0, 1 and 2,
\* and contents up to and over the limit
ChatBodies ==
    {[session_id |-> sid, messages |-> msgs] :
        sid \in {NoneInt, SomeInt(0), SomeInt(1), SomeInt(2)},
        msgs \in {<<5>>, <<20000>>, <<12000, 8001>>, ManyMessages}}

Requests ==
    {[method |-> "POST", path |-> <<"session">>, body |-> NoBody],
     [method |-> "POST", path |-> <<"session", "new">>, body |-> NoBody],
     [method |-> "GET", path |-> <<"chat">>, body |-> NoBody],
     [method |-> "POST", path |-> <<"chats">>, body |-> NoBody]}
        \cup {[method |-> "POST", path |-> <<"chat">>, body |-> b] : b \in ChatBodies}

NoRequest == [method |-> "", path |-> <<>>, body |-> NoBody]

HttpInit ==
    /\ h_db = [sessions |-> <<>>, messages |-> <<>>, now |-> 0, handled |-> 0]
    /\ h_resp = Response(NoRequest, 0, 0, NoCall)

\* one request, from its arrival to its response
HttpRequest(req, outcome) ==
    /\ h_db.handled < MaxRequests
    /\ \E r \in {handle(h_db, req, outcome)} :
           /\ h_db' = [r.db EXCEPT !.handled = @ + 1]
           /\ h_resp' = r.resp

\* a minute passes
HttpTick ==
    /\ h_db.now < MaxClock
    /\ h_db' = [h_db EXCEPT !.now = @ + 1]
    /\ UNCHANGED h_resp

HttpNext ==
    \/ \E req \in Requests, outcome \in PipelineOutcomes : HttpRequest(req, outcome)
    \/ HttpTick

-----------------------------------------------------------------------------
(* The tool registry (tools/__init__.py): register_tool is the decorator   *)
(* of the tool classes; it runs when the module of a class is imported.    *)

\* the modules of backend/tools with a decorated class, and the name
\* attribute of the class
ToolModules ==
    [calculator |-> [cls |-> "CalculatorTool", name |-> "calculator"],
     hello |-> [cls |-> "HelloTool", name |-> "hello"],
     http |-> [cls |-> "HTTPTool", name |-> "http_get"],
     keyword |-> [cls |-> "KeywordTool", name |-> "extract_keywords"],
     retrieval |-> [cls |-> "RetrievalTool", name |-> "retrieval"],
     summarize |-> [cls |-> "RetrievalTool", name |-> "retrieval"],
     translation |-> [cls |-> "TranslationTool", name |-> "translate"]]

\* _TOOL_REGISTRY[instance.name] = instance (lines 10-11); the instance is
\* told by the module of its class
register_tool(reg, module) ==
    [n \in DOMAIN reg \cup {ToolModules[module].name} |->
        IF n = ToolModules[module].name THEN module ELSE reg[n]]

ToolsInit ==
    /\ registry = <<>>
    /\ decorated = {}

\* a tool module is imported: its class is decorated
ImportToolModule(module) ==
    /\ module \notin decorated
    /\ registry' = register_tool(registry, module)
    /\ decorated' = decorated \cup {module}

ToolsNext == \E module \in DOMAIN ToolModules : ImportToolModule(module)

CacheIdle ==
    /\ cache_file = {}
    /\ cache_saved = {}
    /\ e_proc = [p \in {} |-> CallerIdle]

MemIdle ==
    /\ m_index = NoIndex
    /\ m_json = <<>>
    /\ m_proc = [p \in {} |-> MemCallerIdle]

HttpIdle ==
    /\ h_db = [sessions |-> <<>>, messages |-> <<>>, now |-> 0, handled |-> 0]
    /\ h_resp = Response(NoRequest, 0, 0, NoCall)

ToolsIdle ==
    /\ registry = <<>>
    /\ decorated = {}

\* everything but the agent, the parser harness and retrieval is idle
SysIdle == CacheIdle /\ MemIdle /\ HttpIdle /\ ToolsIdle

RetrieveIdle ==
    /\ r_pc = "idle"
    /\ r_in = [query |-> "", mem |-> [exists |-> FALSE, docs |-> <<>>],
               doc |-> [exists |-> FALSE, docs |-> <<>>], search_ok |-> FALSE,
               mem_scan_ok |-> FALSE, doc_scan_ok |-> FALSE, emb |-> "fail"]
    /\ r_out = RetNone

\* the parser harness is idle in a run of the agent, and the other way round
ParseIdle ==
    /\ p_pc = "idle"
    /\ p_in = [lead |-> "", prefix |-> "Action:", gap |-> "", name |-> "", open |-> "",
               block |-> "", close |-> ""]
    /\ p_out = ParseNone

AgentIdle ==
    /\ cfg = AgentDefault
    /\ a_pc = "idle"
    /\ step = 0
    /\ trace = <<>>
    /\ scratchpad_lines = <<>>
    /\ messages = <<>>
    /\ model_text = ""
    /\ attempt = 0
    /\ obs = NoObs
    /\ tool_ev = NoEv
    /\ result = NoResult
    /\ n_results = 0
    /\ live = {}
    /\ n_timeouts = 0
    /\ late_effects = 0

Init == AgentInit /\ ParseIdle /\ RetrieveIdle /\ SysIdle

Next == AgentNext

Spec == Init /\ [][Next]_vars

InitParse == ParseInit /\ AgentIdle /\ RetrieveIdle /\ SysIdle

NextParse == ParseCall /\ UNCHANGED <<agentVars, retrVars, sysVars>>

SpecParse == InitParse /\ [][NextParse]_vars

\* the runs of the entry points called without configuration
InitUnconfigured == AgentNew(UnconfiguredRuns) /\ ParseIdle /\ RetrieveIdle /\ SysIdle

SpecUnconfigured == InitUnconfigured /\ [][Next]_vars

InitRetrieve == RetrieveInit /\ AgentIdle /\ ParseIdle /\ SysIdle

NextRetrieve == RetrieveCall /\ UNCHANGED <<agentVars, parseVars, sysVars>>

SpecRetrieve == InitRetrieve /\ [][NextRetrieve]_vars

\* concurrent callers of the embedding cache
InitCache ==
    /\ CacheInit
    /\ AgentIdle /\ ParseIdle /\ RetrieveIdle /\ MemIdle /\ HttpIdle /\ ToolsIdle

NextCache ==
    CacheNext /\ UNCHANGED <<agentVars, parseVars, retrVars, memVars, httpVars, toolVars>>

\* runs in which the model spells the Action prefix in several cases
InitCase == AgentNew(CaseRuns) /\ ParseIdle /\ RetrieveIdle /\ SysIdle

NextCase == AgentSteps(CaseOutputs)

SpecCase == InitCase /\ [][NextCase]_vars

\* runs with allowed_tools set
InitAllowed == AgentNew(AllowedRuns) /\ ParseIdle /\ RetrieveIdle /\ SysIdle

SpecAllowed == InitAllowed /\ [][Next]_vars

SpecCache == InitCache /\ [][NextCache]_vars

\* requests to the HTTP API
InitHttp ==
    /\ HttpInit
    /\ AgentIdle /\ ParseIdle /\ RetrieveIdle /\ CacheIdle /\ MemIdle /\ ToolsIdle

NextHttp ==
    HttpNext /\ UNCHANGED <<agentVars, parseVars, retrVars, cacheVars, memVars, toolVars>>

SpecHttp == InitHttp /\ [][NextHttp]_vars

\* the imports of the tool modules
InitTools ==
    /\ ToolsInit
    /\ AgentIdle /\ ParseIdle /\ RetrieveIdle /\ CacheIdle /\ MemIdle /\ HttpIdle

NextTools ==
    ToolsNext /\ UNCHANGED <<agentVars, parseVars, retrVars, cacheVars, memVars, httpVars>>

SpecTools == InitTools /\ [][NextTools]_vars

\* concurrent callers of the memory store
InitMem ==
    /\ MemInit
    /\ AgentIdle /\ ParseIdle /\ RetrieveIdle /\ CacheIdle /\ HttpIdle /\ ToolsIdle

NextMem ==
    MemNext /\ UNCHANGED <<agentVars, parseVars, retrVars, cacheVars, httpVars, toolVars>>

SpecMem == InitMem /\ [][NextMem]_vars

-----------------------------------------------------------------------------
(* Properties of parse_action_line, under SpecParse                        *)

\* a line 'Action: <name>(<json>)'
WellFormedLine(in) ==
    /\ in.prefix = "Action:"
    /\ in.name # ""
    /\ in.open = "("
    /\ in.close = ")"

CalculatorLine == "Action: calculator({\"expression\": \"2+2\"})"

\* C7: parse_action_line never raises; on a line Action: <name>(<json>) whose
\* argument block is a JSON object it returns the name and the decoded
\* object (calculator with {expression: "2+2"} for the line of the example),
\* and when the block is not valid JSON, or is valid JSON that is not an
\* object, it returns None.
C7_ParseRobust ==
    p_pc = "done" =>
        /\ p_out.st \in {"ok", "none"}
        /\ (WellFormedLine(p_in) /\ p_in.block \in ObjectBlocks
               => p_out = ParseOk(p_in.name, json_loads(p_in.block)))
        /\ (WellFormedLine(p_in) /\ p_in.block \in NonObjectBlocks \cup BadBlocks
               => p_out = ParseNone)
        /\ (LineOf(p_in) = CalculatorLine
               => /\ p_out.st = "ok"
                  /\ p_out.name = "calculator"
                  /\ p_out.args.kind = "object"
                  /\ p_out.args.keys = {"expression"}
                  /\ p_out.args.canon = "{\"expression\":\"2+2\"}")

C7_Witness ==
    /\ p_pc = "done"
    /\ LineOf(p_in) = CalculatorLine
    /\ p_out.st = "ok"

\* C8: parse_action_line returns failure whenever the tool name is empty,
\* so that every Action it produces has a non-empty name.
C8_EmptyNameFails ==
    p_pc = "done" /\ p_out.st = "ok" => p_out.name # ""

\* C9: parse_action_line returns failure whenever the argument block is not
\* enclosed in a pair of parentheses after the tool name: a line with no
\* "(", with no closing ")", or with text after the closing ")" fails.
C9_ParenthesesRequired ==
    p_pc = "done" /\ p_out.st = "ok" => p_in.open # "" /\ p_in.close = ")"

-----------------------------------------------------------------------------
(* Properties of Agent.run and run_tool_safely, under Spec                 *)

LastEntry == trace[Len(trace)]

\* a step of the loop from the await of the model to the next await or return
LLMStep == a_pc = "llm" /\ (a_pc' # "llm" \/ trace' # trace)

HasFinalAnswerLine(mt) ==
    \E i \in 1..Len(SplitLines(mt)) : StartsWith(Strip(SplitLines(mt)[i]), "FinalAnswer:")

HasActionLine(mt) ==
    \E i \in 1..Len(SplitLines(mt)) : StartsWith(Strip(SplitLines(mt)[i]), "Action:")

\* per model text: has it a FinalAnswer line, and the text after the prefix
FinalAnswerOf ==
    [mt \in ModelTexts |->
        [has |-> HasFinalAnswerLine(mt), both |-> HasFinalAnswerLine(mt) /\ HasActionLine(mt),
         text |-> final_text_of(mt)]]

ActionAndFinalText == "Action: calculator({\"expression\": \"2+2\"})\n  FinalAnswer: 4"

\* C1: Agent.run returns exactly one AgentResult, whose trace has at most
\* max_steps entries; no model output and no tool outcome makes the loop run
\* a step beyond max_steps or end without a result.
C1_TerminationBound ==
    /\ step <= max_steps
    /\ Len(trace) <= max_steps
    /\ Len(trace) <= step
    /\ a_pc # "raised"
    /\ n_results = (IF a_pc = "returned" THEN 1 ELSE 0)
    /\ result.some = (a_pc = "returned")
    /\ (a_pc = "returned" => result.trace = trace /\ Len(result.trace) <= max_steps)

\* the loop is exhausted: max_steps steps, each with a trace entry
C1_Witness ==
    /\ a_pc = "returned"
    /\ result.final_text = MAX_STEPS_TEXT
    /\ cfg.max_steps.set
    /\ Len(result.trace) = cfg.max_steps.v
    /\ Len(result.trace) > 1

\* C2: for every configured max_retries value, a step whose action parses
\* and whose tool fails on every attempt invokes the tool exactly max_retries
\* times, and records the observation of the last attempt.
C2_RetryBound ==
    (/\ a_pc \in {"llm", "returned"}
     /\ trace # <<>>
     /\ LastEntry.action.some
     /\ ~LastEntry.observation.success
     /\ tool_ev.kind \in {"raise", "timeout"}
     /\ cfg.max_retries.set)
        => /\ attempt = cfg.max_retries.v
           /\ LastEntry.observation = obs

\* C3: a model output with a line starting with FinalAnswer: ends the run in
\* that step with the text after the prefix as final_text, whether or not
\* it also has an Action line; no tool is invoked in the step and nothing is
\* appended to the trace or the scratchpad.
C3_FinalAnswerWins ==
    [][LLMStep /\ FinalAnswerOf[model_text'].has
          => /\ a_pc' = "returned"
             /\ result'.some
             /\ result'.final_text = FinalAnswerOf[model_text'].text
             /\ (model_text' = ActionAndFinalText => result'.final_text = "4")
             /\ result'.trace = trace
             /\ result'.thoughts = Join(scratchpad_lines, "\n")
             /\ UNCHANGED <<trace, scratchpad_lines, live, attempt, tool_ev, obs>>]_vars

C3_Witness ==
    /\ a_pc = "returned"
    /\ model_text = ActionAndFinalText
    /\ FinalAnswerOf[model_text].both
    /\ result.final_text = "4"
    /\ trace # <<>>

\* C4: a tool invocation, of a plain function or of a coroutine, that has
\* not finished when the timeout expires yields an Observation with
\* success false and error timeout, and the loop goes on to the next attempt
\* or to the next step without waiting for the tool body to finish.
C4_TimeoutIsolation ==
    [][n_timeouts' = n_timeouts + 1
          => /\ obs'.some /\ ~obs'.success /\ obs'.error = "timeout"
             /\ obs'.text = "Tool '" \o awaited.name \o "' timed out after "
                               \o ToString(timeout) \o "s."
             /\ \/ /\ a_pc' = "tool"
                   /\ attempt' = attempt + 1
                   /\ attempt' <= max_retries
                   /\ trace' = trace
                \/ /\ a_pc' \in {"llm", "returned"}
                   /\ trace' = Append(trace, trace'[Len(trace')])
                   /\ trace'[Len(trace')].observation = obs'
                   /\ trace'[Len(trace')].step = step
             /\ \A z \in live' : z.step = step /\ z.attempt = attempt => z.abandoned
             /\ (awaited.mode = "sync" => [awaited EXCEPT !.abandoned = TRUE] \in live')]_vars

\* the loop is at its next step while the timed-out tool body still executes
C4_Witness ==
    /\ n_timeouts = 1
    /\ a_pc = "llm"
    /\ trace # <<>>
    /\ LastEntry.observation.error = "timeout"
    /\ \E z \in live : z.abandoned /\ z.step < step

\* C5: once a tool call is reported as timed out, the tool body of that
\* invocation is no longer running and has no further effect on shared
\* state, for a plain function run in the executor as for a coroutine.
C5_AbandonedStops ==
    /\ \A z \in live : ~z.abandoned
    /\ late_effects = 0

\* C6: run_tool_safely never raises; an unregistered name gives error
\* unknown_tool and runs no tool; a tool without run/arun, arguments that
\* collide with a parameter, and a tool that raises give error exception with
\* the message in details; a tool that returns gives success with
\* str(result) as text.
C6_RunToolSafely ==
    /\ a_pc # "raised"
    /\ (tool_ev.kind = "unknown"
           => ~obs.success /\ obs.error = "unknown_tool")
    /\ (tool_ev.kind \in {"nofunc", "binding", "raise"}
           => ~obs.success /\ obs.error = "exception" /\ obs.details = tool_ev.msg)
    /\ (tool_ev.kind = "return"
           => obs.success /\ obs.text = py_str(tool_ev.res[1]))

-----------------------------------------------------------------------------
(* Properties of retrieve_context, under SpecRetrieve                      *)

\* C10: no two entries of the output of retrieve_context have contents
\* whose similarity ratio is above 0.92, for any number of candidates and
\* any order of arrival.
C10_NoSimilarPair ==
    r_pc = "done" /\ r_out.st = "ok" =>
        \A i, j \in 1..Len(r_out.items) :
            i # j => ~RatioTable[<<r_out.items[i].content, r_out.items[j].content>>]

\* the rank scores of all the candidates the call scored
ScoredRanks == [i \in 1..Len(r_out.scored) |-> r_out.scored[i].rank_score]

\* the scored candidates at or above max(0.5, mean - 0.5 * std)
AtOrAboveCutoff ==
    {i \in 1..Len(r_out.scored) :
        /\ r_out.scored[i].rank_score >= CUTOFF_FLOOR
        /\ above_mean_cut(r_out.scored[i].rank_score, ScoredRanks)}

Returned == {r_out.items[i] : i \in 1..Len(r_out.items)}

\* C11: every candidate retrieve_context returns has a rank score of at least
\* 0.5 and of at least mean - 0.5 * std of the rank scores of all scored
\* candidates; a scored candidate is returned exactly when it is at or above
\* max(0.5, mean - 0.5 * std)
C11_Cutoff ==
    r_pc = "done" /\ r_out.st = "ok" =>
        /\ \A c \in Returned :
               c.rank_score >= CUTOFF_FLOOR /\ above_mean_cut(c.rank_score, ScoredRanks)
        /\ \A i \in 1..Len(r_out.scored) :
               r_out.scored[i] \in Returned <=> i \in AtOrAboveCutoff
        /\ Len(r_out.items) = Cardinality(AtOrAboveCutoff)

\* a call returned a candidate and dropped another one that is not below
\* mean - 0.5 * std but is below 0.5
C11_Witness ==
    /\ r_pc = "done" /\ r_out.st = "ok" /\ r_out.items # <<>>
    /\ \E i \in 1..Len(r_out.scored) :
           /\ r_out.scored[i] \notin Returned
           /\ above_mean_cut(r_out.scored[i].rank_score, ScoredRanks)
           /\ r_out.scored[i].rank_score < CUTOFF_FLOOR

\* C12: the returned sequence is non-increasing in rank score, and two
\* returned candidates of equal rank score keep the order they have in the
\* merged candidate list
C12_Ordered ==
    r_pc = "done" /\ r_out.st = "ok" =>
        \A i, j \in 1..Len(r_out.items) :
            i < j =>
                /\ r_out.items[i].rank_score >= r_out.items[j].rank_score
                /\ r_out.items[i].rank_score = r_out.items[j].rank_score =>
                       \E p, q \in 1..Len(r_out.scored) :
                           /\ p < q
                           /\ r_out.scored[p] = r_out.items[i]
                           /\ r_out.scored[q] = r_out.items[j]

\* a call returned two different candidates of equal rank score, out of
\* three scored ones
C12_Witness ==
    /\ r_pc = "done" /\ r_out.st = "ok" /\ Len(r_out.scored) = 3
    /\ \E i, j \in 1..Len(r_out.items) :
           /\ i < j
           /\ r_out.items[i].rank_score = r_out.items[j].rank_score
           /\ r_out.items[i] # r_out.items[j]

\* C13: when no memory and no document was ever added (neither index
\* directory exists) and the embedding service works, retrieve_context
\* returns the empty list and raises nothing
C13_EmptyCorpora ==
    /\ r_pc = "done"
    /\ ~r_in.mem.exists /\ ~r_in.doc.exists
    /\ r_in.search_ok /\ r_in.mem_scan_ok /\ r_in.doc_scan_ok
    => r_out.st = "ok" /\ r_out.items = <<>>

-----------------------------------------------------------------------------
(* Further properties of Agent.run, under Spec                             *)

\* the first stripped non-empty line of mt that starts with Action:
FirstActionLine(mt) ==
    LET ls == SelectSeq([i \in 1..Len(SplitLines(mt)) |-> Strip(SplitLines(mt)[i])],
                        LAMBDA l : StartsWith(l, "Action:"))
    IN  IF ls = <<>> THEN "" ELSE Head(ls)

\* per model text: has it neither line; has it an Action line, no FinalAnswer
\* line, and does parse_action_line give None for the Action line
LinesOf ==
    [mt \in ModelTexts |->
        [neither |-> ~HasFinalAnswerLine(mt) /\ ~HasActionLine(mt),
         action_line |-> FirstActionLine(mt),
         unparsed |-> /\ ~HasFinalAnswerLine(mt)
                      /\ HasActionLine(mt)
                      /\ parse_action_line(FirstActionLine(mt)).st = "none"]]

\* C14: a model output with neither a FinalAnswer line nor an Action line
\* ends the run in that step: an AgentResult with the fixed 'could not
\* determine' text is returned, no tool is invoked, and the trace is that
\* of the earlier steps.
C14_NoActionStops ==
    [][LLMStep /\ LinesOf[model_text'].neither
          => /\ a_pc' = "returned"
             /\ result' = AgentResult(NO_ACTION_TEXT, Join(scratchpad_lines, "\n"), trace)
             /\ n_results' = n_results + 1
             /\ Len(result'.trace) = step - 1
             /\ UNCHANGED <<step, trace, scratchpad_lines, live, attempt, tool_ev, obs>>]_vars

\* a run that ended so in a step after the first
C14_Witness ==
    /\ a_pc = "returned"
    /\ LinesOf[model_text].neither
    /\ result.final_text = NO_ACTION_TEXT
    /\ step > 1
    /\ result.trace # <<>>

\* C15: a step whose Action line does not parse does not end the run: no
\* tool is invoked, one trace entry without action and with a failed
\* parse_error observation is appended, the observation text is appended to
\* the scratchpad, and the loop goes to the next step, or returns the max
\* steps result when the step was the last one.
C15_ParseErrorContinues ==
    [][LLMStep /\ LinesOf[model_text'].unparsed
          => /\ trace' = Append(trace, trace'[Len(trace')])
             /\ trace'[Len(trace')].step = step
             /\ ~trace'[Len(trace')].action.some
             /\ trace'[Len(trace')].observation =
                    [some |-> TRUE,
                     text |-> "Failed to parse action line: "
                                  \o LinesOf[model_text'].action_line,
                     success |-> FALSE, error |-> "parse_error", details |-> ""]
             /\ scratchpad_lines' =
                    Append(scratchpad_lines,
                           "Observation: Failed to parse action line: "
                               \o LinesOf[model_text'].action_line)
             /\ UNCHANGED <<live, attempt>>
             /\ IF step < max_steps
                THEN a_pc' = "llm" /\ step' = step + 1 /\ UNCHANGED <<result, n_results>>
                ELSE /\ a_pc' = "returned"
                     /\ result' = AgentResult(MAX_STEPS_TEXT, Join(scratchpad_lines', "\n"),
                                               trace')]_vars

\* the loop awaits the model again after a step whose Action line did not
\* parse
C15_Witness ==
    /\ a_pc = "llm"
    /\ trace # <<>>
    /\ LastEntry.observation.error = "parse_error"
    /\ LastEntry.step = step - 1
    /\ live = {}

\* C16: a run whose caller specified no configuration uses max_steps 15,
\* max_retries 2 and a tool timeout of 30 seconds, whether it was started
\* with Agent() or with run_agent_chat without keyword arguments.
C16_Defaults ==
    a_pc \notin {"new", "idle"} /\ ~cfg.configured =>
        max_steps = 15 /\ max_retries = 2 /\ timeout = 30

\* C17: the attempts of one tool dispatch never overlap: at no moment are
\* two invocations of the tool of a step executing, also after an attempt
\* of a plain function has timed out.
C17_AttemptsSequential ==
    \A y, z \in live : y.step = z.step /\ y.name = z.name => y = z

\* the entries of the trace are numbered 1, 2, ...; a returned result holds
\* the trace, of step - 1 entries when the last model output had a
\* FinalAnswer line or no Action line, and else of max_steps entries with
\* the max steps text
TraceShape ==
    /\ \A i \in 1..Len(trace) : trace[i].step = i
    /\ Len(trace) <= max_steps
    /\ a_pc = "returned" =>
           /\ result.trace = trace
           /\ IF FinalAnswerOf[model_text].has \/ LinesOf[model_text].neither
              THEN /\ Len(result.trace) = step - 1
                   /\ result.final_text # MAX_STEPS_TEXT
              ELSE /\ Len(result.trace) = max_steps
                   /\ step = max_steps
                   /\ result.final_text = MAX_STEPS_TEXT

\* C18: the trace is append-only and its i-th entry has step i; on return
\* its length is n - 1 when the run ends in step n with a final answer or
\* without an action, and max_steps when it ends with the max steps text.
C18_TraceAppendOnly ==
    /\ []TraceShape
    /\ [][trace' = trace \/ (Len(trace') = Len(trace) + 1 /\ SubSeq(trace', 1, Len(trace)) = trace)]_vars

\* a run that ended with the max steps text after max_steps = 3 recorded
\* steps, one of them a parse failure
C18_Witness ==
    /\ a_pc = "returned"
    /\ result.final_text = MAX_STEPS_TEXT
    /\ max_steps = 3
    /\ Len(result.trace) = 3
    /\ \E i \in 1..3 : ~result.trace[i].action.some

\* the candidates kept at line 119 for the structural key of candidate c
KeptFor(c) ==
    {i \in 1..Len(r_out.combined) : candidate_key(r_out.combined[i]) = candidate_key(c)}

\* C19: when two raw candidates of a call have the same structural key, one
\* candidate is kept for the key; it has the higher of their base scores,
\* and a keyword score when one of them has one.
C19_KeyCollision ==
    r_pc = "done" /\ r_out.st = "ok" =>
        \A i, j \in 1..Len(r_out.raw) :
            i # j /\ candidate_key(r_out.raw[i]) = candidate_key(r_out.raw[j]) =>
                /\ Cardinality(KeptFor(r_out.raw[i])) = 1
                /\ \A k \in KeptFor(r_out.raw[i]) :
                       /\ r_out.combined[k].score >= r_out.raw[i].score
                       /\ r_out.combined[k].score >= r_out.raw[j].score
                       /\ r_out.raw[i].keyword_score >= 0 =>
                              r_out.combined[k].keyword_score >= 0

\* the semantic results of the two corpora for the call, as delivered to
\* lines 85-86
MemSemantic == query_memory(r_in.query, r_in.mem, r_in.search_ok, MEM_THRESHOLD)

DocSemantic == query_docs(r_in.query, r_in.doc, r_in.search_ok, DOC_THRESHOLD)

\* every result of found is a text of store whose similarity 1 - distance
\* is at least threshold (in twentieths: 20 - dist)
AboveThreshold(found, store, threshold) ==
    \A i \in 1..Len(found.items) :
        \E k \in 1..Len(store.docs) :
            /\ store.docs[k].text = found.items[i].content
            /\ 20 - store.docs[k].dist >= threshold

\* C20: every semantic-search result delivered to retrieve_context has a
\* similarity 1 - distance to the query of at least the threshold of its
\* corpus (0.70 for memory and for documents).
C20_SemanticThreshold ==
    r_pc = "done" =>
        /\ AboveThreshold(MemSemantic, r_in.mem, MEM_THRESHOLD)
        /\ AboveThreshold(DocSemantic, r_in.doc, DOC_THRESHOLD)


-----------------------------------------------------------------------------
(* Properties of the embedding cache, under SpecCache                      *)

\* C21: the embedding cache is append-only under every interleaving of
\* concurrent get_or_create_embedding calls: no step removes a stored key,
\* and a call that begins after a key was saved finds the key and does not
\* go on to the embedding function.
C21_CacheAppendOnly ==
    /\ [][cache_file \subseteq cache_file']_vars
    /\ [](\A p \in DOMAIN e_proc : e_proc[p].pc = "miss" => ~e_proc[p].was_saved)


-----------------------------------------------------------------------------
(* Properties of the memory store, under SpecMem                           *)

MemAllReturned == \A p \in DOMAIN m_proc : m_proc[p].pc = "idle"

\* the texts some call reported as added, and those some call took out
MemAdded == UNION {m_proc[p].added : p \in DOMAIN m_proc}

MemRemoved == UNION {m_proc[p].removed : p \in DOMAIN m_proc}

\* C22: once every call has returned, a text whose insertion was reported
\* and that no edit or delete took out is in the index, whatever the
\* interleaving of the calls, and memories.json holds the texts of the index.
C22_InsertsKept ==
    MemAllReturned =>
        /\ (MemAdded \ MemRemoved) \subseteq m_index.texts
        /\ ListSet(m_json) = m_index.texts


-----------------------------------------------------------------------------
(* Properties of the Action prefix, under SpecCase                         *)

\* the first stripped line of mt that starts with the Action prefix in any
\* case, "" when there is none
AnyCaseActionLine(mt) ==
    LET ls == SelectSeq([i \in 1..Len(SplitLines(mt)) |-> Strip(SplitLines(mt)[i])],
                        LAMBDA l : StartsWith(Lower(l), "action:"))
    IN  IF ls = <<>> THEN "" ELSE Head(ls)

\* the same line with the prefix spelled "Action:"
AsActionLine(line) == "Action:" \o SubSeq(line, Len("Action:") + 1, Len(line))

\* per model text: has it no FinalAnswer line and an Action line in another
\* case than "Action:", and what the line asks for when spelled "Action:"
OtherCaseOf ==
    [mt \in CaseTexts |->
        [other |-> /\ ~HasFinalAnswerLine(mt)
                   /\ AnyCaseActionLine(mt) # ""
                   /\ ~StartsWith(AnyCaseActionLine(mt), "Action:"),
         asked |-> parse_action_line(AsActionLine(AnyCaseActionLine(mt)))]]

\* C23: an Action line whose prefix is written 'action:' or 'ACTION:', in
\* an output without FinalAnswer line, is recognised by the loop and
\* dispatched like the line written with 'Action:': the step invokes the
\* tool the line names.
C23_PrefixAnyCase ==
    [][LLMStep /\ OtherCaseOf[model_text'].other /\ OtherCaseOf[model_text'].asked.st = "ok"
          => /\ a_pc' = "tool"
             /\ \E i \in live' : /\ i.step = step
                                 /\ i.name = OtherCaseOf[model_text'].asked.name]_vars


-----------------------------------------------------------------------------
(* Properties of the HTTP API, under SpecHttp                              *)

IsChat(req) == req.method = "POST" /\ req.path = <<"chat">>

\* a step that handles one request
RequestStep == h_db'.handled = h_db.handled + 1

\* the response of the step is 400, no row was stored or changed and the
\* pipeline was not called
RejectedUnchanged ==
    /\ h_resp'.status = 400
    /\ h_db'.messages = h_db.messages
    /\ h_db'.sessions = h_db.sessions
    /\ h_resp'.ran = <<>>

\* C24: POST /session/new creates a session: the status is 200, the body
\* holds a session_id, and the session of that id exists for later requests.
C24_SessionNew ==
    h_resp.req.method = "POST" /\ h_resp.req.path = <<"session", "new">> =>
        /\ h_resp.status = 200
        /\ session_exists(h_db, h_resp.session_id)

C26_ChatRunsAgent ==
    IsChat(h_resp.req) /\ h_resp.ran # <<>> =>
        /\ Cardinality({i \in 1..Len(h_resp.ran) : h_resp.ran[i] = "Agent.run"}) = 1
        /\ \A i \in 1..Len(h_resp.tools) :
               /\ h_resp.tools[i].via = "run_tool_safely"
               /\ h_resp.tools[i].timeout.set
               /\ h_resp.status = 200


-----------------------------------------------------------------------------
(* Further properties of retrieve_context, under SpecRetrieve              *)

\* the three components of a scored candidate, in twentieths: the base
\* score, the cosine (0 when the query has no embedding) and the keyword
\* score (0 when the candidate carries none)
BaseOf(c) == c.score

CosineOf(c) == IF r_in.emb = "fail" THEN 0 ELSE cosine_sim(r_in.emb, c.content)

KeywordOf(c) == IF c.keyword_score = -1 THEN 0 ELSE c.keyword_score

\* 0.55 base + 0.35 cosine + 0.10 keyword, in two-thousandths
WeightedSum(c) == 55 * BaseOf(c) + 35 * CosineOf(c) + 10 * KeywordOf(c)

PositionsIn(seq, c) == {i \in 1..Len(seq) : seq[i] = c}

-----------------------------------------------------------------------------
(* Properties of the messages given to the model, under Spec               *)

\* the scratchpad context messages in the list messages
ContextMessages ==
    {i \in 1..Len(messages) :
        /\ messages[i].role = "assistant"
        /\ StartsWith(messages[i].content, "(previous reasoning)")}

\* C28: when the model is called, the list it is given is the system
\* prompt, the history, the user input and at most one scratchpad context
\* message, which holds the current scratchpad: the lines of the earlier
\* steps in step order, each once.
C28_OneScratchpadMessage ==
    a_pc = "llm" =>
        /\ Cardinality(ContextMessages) <= 1
        /\ Len(messages) = Len(HISTORY) + 2 + Cardinality(ContextMessages)
        /\ messages[1].role = "system"
        /\ messages[Len(HISTORY) + 2] = [role |-> "user", content |-> USER_INPUT]
        /\ scratchpad_lines = <<>> <=> ContextMessages = {}
        /\ \A i \in ContextMessages :
               messages[i].content = "(previous reasoning)\n" \o Join(scratchpad_lines, "\n")


-----------------------------------------------------------------------------
(* Properties of allowed_tools, under SpecAllowed                          *)

\* C29: when the configuration sets allowed_tools, the run executes no tool
\* outside the list: every tool body that is executing, and every recorded
\* action whose tool was executed, names a tool of the list.
C29_OnlyAllowedTools ==
    cfg.allowed_tools.set =>
        /\ \A i \in live : \E k \in 1..Len(cfg.allowed_tools.v) : cfg.allowed_tools.v[k] = i.name
        /\ \A n \in 1..Len(trace) :
               trace[n].action.some /\ trace[n].observation.success
                   => \E k \in 1..Len(cfg.allowed_tools.v) :
                          cfg.allowed_tools.v[k] = trace[n].action.name


-----------------------------------------------------------------------------
(* Properties of the tool registry, under SpecTools                        *)

\* C30: the registry maps every decorated tool class to its own name:
\* registering a tool does not replace another tool registered under the
\* same name, and the registry has as many entries as classes were
\* decorated.
C30_RegistryComplete ==
    /\ \A module \in decorated :
           /\ ToolModules[module].name \in DOMAIN registry
           /\ registry[ToolModules[module].name] = module
    /\ Cardinality(DOMAIN registry) = Cardinality(decorated)

=============================================================================
